---- MODULE Spec2Model ----
(***************************************************************************)
(* SX126x radio driver (radio.cpp): the interrupt / timer reconciliation   *)
(* pass RadioBgIrqProcess, the handlers that feed it (RadioOnDioIrq, the   *)
(* two timer callbacks) and the orchestrator calls that start operations.  *)
(*                                                                         *)
(* Spec     : every handler is one step; passes are serialised.            *)
(* SpecIrq  : the shared-flag accesses of the handlers, one step per       *)
(*            access, with the BoardDisableIrq/BoardEnableIrq brackets.    *)
(* Spec and SpecIrq follow the control state only: the parameters of the   *)
(* calls and the chip's parameter registers (paramVars) are followed in    *)
(* the specifications further down, whose steps are the same calls         *)
(* together with what they do to the parameters.                           *)
(***************************************************************************)
EXTENDS Integers, Sequences, FiniteSets, TLC

VARIABLES
    RadioEvents,         \* RadioEvents != NULL (every callback of the set non-NULL)
    _events,             \* _events != NULL (every callback of the set non-NULL)
    RadioPublicNetwork,  \* [Previous, Current]
    hasCustomSyncWord,
    _modem,
    RxContinuous,
    OperatingMode,       \* the mode tracked by SX126xSetOperatingMode / SX126xGetOperatingMode
    TxTimeoutTimer,      \* TRUE: started and not yet expired or stopped
    RxTimeoutTimer,
    IrqFired,
    TimerRxTimeout,
    TimerTxTimeout,
    irqStatus,           \* the chip's latched IRQ status register
    chipMode,            \* what the transceiver itself is doing
    dio1,                \* a DIO1 edge not yet served by RadioOnDioIrq
    pass,                \* what the last run of RadioBgIrqProcess saw and did
    txDoneSeen,          \* a TxDone was delivered since the last RadioSend
    rxConcl,             \* RxDone/RxError/RxTimeout delivered to _events since the last RX start (0, 1, 2 = more)
    txConcl,             \* SpecTx: TxDone/TxTimeout delivered to _events since the last RadioSend (0, 1, 2 = more)
    pc,                  \* SpecIrq: the source line each context is at
    frame,               \* SpecIrq: the locals of each context's RadioBgIrqProcess
    irqDisabled,         \* SpecIrq: between BoardDisableIrq and BoardEnableIrq
    access,              \* SpecIrq: the last access to a shared flag
    REG_LR_SYNCWORD,     \* the chip's LoRa sync word register
    MaxPayloadLength,
    TxTimeout,
    RxTimeout,
    force_low_dr_opt,
    SX126x,              \* the modulation and packet parameters the driver keeps
    TimerValue,          \* the value TimerSetValue gave each timer
    Registers,           \* bit 2 of the chip's registers 0x0736 and 0x0889
    calls                \* the last calls of the driver's API, the latest first

vars == <<RadioEvents, _events, RadioPublicNetwork, hasCustomSyncWord, _modem,
          RxContinuous, OperatingMode, TxTimeoutTimer, RxTimeoutTimer, IrqFired,
          TimerRxTimeout, TimerTxTimeout, irqStatus, chipMode, dio1,
          pass, txDoneSeen, rxConcl, txConcl, pc, frame, irqDisabled, access,
          REG_LR_SYNCWORD, MaxPayloadLength, TxTimeout, RxTimeout, force_low_dr_opt,
          SX126x, TimerValue, Registers, calls>>

-----------------------------------------------------------------------------
(* Bounds *)

\* at most this many flags are latched in the chip's IRQ status at a time
MaxLatched == 2

-----------------------------------------------------------------------------
(* Names of the chip interface *)

MODE_SLEEP == "MODE_SLEEP"
MODE_STDBY_RC == "MODE_STDBY_RC"
MODE_TX == "MODE_TX"
MODE_RX == "MODE_RX"
MODE_RX_DC == "MODE_RX_DC"
MODE_CAD == "MODE_CAD"

IRQ_TX_DONE == "IRQ_TX_DONE"
IRQ_RX_DONE == "IRQ_RX_DONE"
IRQ_PREAMBLE_DETECTED == "IRQ_PREAMBLE_DETECTED"
IRQ_HEADER_ERROR == "IRQ_HEADER_ERROR"
IRQ_CRC_ERROR == "IRQ_CRC_ERROR"
IRQ_CAD_DONE == "IRQ_CAD_DONE"
IRQ_CAD_ACTIVITY_DETECTED == "IRQ_CAD_ACTIVITY_DETECTED"
IRQ_RX_TX_TIMEOUT == "IRQ_RX_TX_TIMEOUT"

IRQ_RADIO_NONE == {}
IRQ_RADIO_ALL ==
    {IRQ_TX_DONE, IRQ_RX_DONE, IRQ_PREAMBLE_DETECTED, IRQ_HEADER_ERROR,
     IRQ_CRC_ERROR, IRQ_CAD_DONE, IRQ_CAD_ACTIVITY_DETECTED, IRQ_RX_TX_TIMEOUT}

MODEM_FSK == "MODEM_FSK"
MODEM_LORA == "MODEM_LORA"

IRQ_TYPE == "IRQ_TYPE"
TIMER_TYPE == "TIMER_TYPE"
NoType == "-"

\* the masks the orchestrator writes with SX126xSetDioIrqParams
SendIrqMask == {IRQ_TX_DONE, IRQ_RX_TX_TIMEOUT}
RxIrqMask == {IRQ_RX_DONE, IRQ_RX_TX_TIMEOUT, IRQ_HEADER_ERROR, IRQ_CRC_ERROR}
CadIrqMask == {IRQ_CAD_DONE, IRQ_CAD_ACTIVITY_DETECTED}

-----------------------------------------------------------------------------
(* The listener calls *)

\* one call of a callback: which set, which callback, the cause tag, the value
\* of RadioPublicNetwork.Current at the call (the isPublic argument of the
\* _events set) and the operating mode the callback observes
Call(s, set, name, type) ==
    [set |-> set, name |-> name, type |-> type,
     isPublic |-> RadioPublicNetwork.Current, mode |-> s.OperatingMode]

\* if (RadioPublicNetwork.Current == true) { if ((RadioEvents != NULL) && ...) RadioEvents->name(); }
CallRadioEvents(s, name, type) ==
    IF RadioPublicNetwork.Current /\ RadioEvents
    THEN [s EXCEPT !.events = Append(@, Call(s, "RadioEvents", name, type))]
    ELSE s

\* CallEvents gated on the network mode, as the RadioEvents calls are
CallEvents_Gated(s, name, type) ==
    IF RadioPublicNetwork.Current /\ _events
    THEN [s EXCEPT !.events = Append(@, Call(s, "_events", name, type))]
    ELSE s

\* if ((_events != NULL) && (_events->name != NULL)) _events->name(RadioPublicNetwork.Current, ...);
CallEvents(s, name, type) ==
    IF _events
    THEN [s EXCEPT !.events = Append(@, Call(s, "_events", name, type))]
    ELSE s

\* LOG_LIB("RADIO", tag)
Log(s, tag) == [s EXCEPT !.log = Append(@, tag)]

\* what the application's listeners do when they are called: nothing, or, on
\* the event named on, RadioSend or RadioRx(timeout)
NoReaction == [on |-> "none", do |-> "none", timeout |-> 0]

Reactions ==
    {NoReaction}
    \cup [on : {"TxDone", "TxTimeout", "RxDone", "RxTimeout", "RxError"},
          do : {"RadioSend"}, timeout : {0}]
    \cup [on : {"TxDone", "TxTimeout", "RxDone", "RxTimeout", "RxError"},
          do : {"RadioRx"}, timeout : {0, 1}]

\* the listeners called between s0 and s react to the event name: RadioSend
\* sets the chip to TX and starts the TX timer, RadioRx(timeout) sets it to RX
\* and starts the RX timer when timeout is not 0
Listen(s0, s, name) ==
    IF s.react.on # name \/ Len(s.events) = Len(s0.events) THEN s
    ELSE IF s.react.do = "RadioSend"
    THEN [s EXCEPT !.OperatingMode = MODE_TX, !.TxTimeoutTimer = TRUE,
                   !.started = "RadioSend"]
    ELSE [s EXCEPT !.OperatingMode = MODE_RX,
                   !.RxTimeoutTimer = IF s.react.timeout # 0 THEN TRUE ELSE @,
                   !.started = "RadioRx"]

\* the two calls every TX/RX outcome branch makes, in the order of the code,
\* and what the listeners called do
Notify(s, name, type) ==
    Listen(s, CallEvents(CallRadioEvents(s, name, type), name, type), name)

\* CadDone and PreAmpDetect go to RadioEvents only, and are not gated
CallRadioEventsUngated(s, name) ==
    IF RadioEvents
    THEN [s EXCEPT !.events = Append(@, Call(s, "RadioEvents", name, NoType))]
    ELSE s

-----------------------------------------------------------------------------
(* RadioBgIrqProcess, branch by branch.  s is the state the pass works on:   *)
(* the driver's flags, timers and tracked mode, the chip's IRQ status, the   *)
(* locals irqRegs, rx_timeout_handled, tx_timeout_handled, and what the pass *)
(* has done so far (the listener calls and the SX126xGetPayload calls).      *)

\* BranchTxDone without TimerStop(&TxTimeoutTimer)
BranchTxDone_NoTimerStop(s) ==
    IF IRQ_TX_DONE \in s.irqRegs
    THEN Notify([Log(s, "IRQ_TX_DONE") EXCEPT !.tx_timeout_handled = TRUE,
                                              !.OperatingMode = MODE_STDBY_RC],
                "TxDone", NoType)
    ELSE s

\* if ((irqRegs & IRQ_TX_DONE) == IRQ_TX_DONE)
BranchTxDone(s) ==
    IF IRQ_TX_DONE \in s.irqRegs
    THEN Notify([Log(s, "IRQ_TX_DONE") EXCEPT !.tx_timeout_handled = TRUE,
                                              !.TxTimeoutTimer = FALSE,
                                              !.OperatingMode = MODE_STDBY_RC],
                "TxDone", NoType)
    ELSE s

\* BranchRxDone without the test of RxContinuous: the mode is always demoted
BranchRxDone_AlwaysDemotes(s) ==
    IF IRQ_RX_DONE \in s.irqRegs
    THEN LET s1 == [Log(s, "IRQ_RX_DONE") EXCEPT
                             !.rx_timeout_handled = TRUE,
                             !.RxTimeoutTimer =
                                 IF RadioPublicNetwork.Current THEN FALSE ELSE @,
                             !.OperatingMode = MODE_STDBY_RC]
             s2 == [s1 EXCEPT !.getPayload = @ + 1]
         IN  IF IRQ_CRC_ERROR \in s.irqRegs
             THEN Notify(Log(s2, "IRQ_CRC_ERROR"), "RxError", NoType)
             ELSE Notify(s2, "RxDone", NoType)
    ELSE s

\* BranchRxDone without the test of IRQ_CRC_ERROR
BranchRxDone_CrcIgnored(s) ==
    IF IRQ_RX_DONE \in s.irqRegs
    THEN LET s1 == [Log(s, "IRQ_RX_DONE") EXCEPT
                             !.rx_timeout_handled = TRUE,
                             !.RxTimeoutTimer =
                                 IF RadioPublicNetwork.Current THEN FALSE ELSE @,
                             !.OperatingMode =
                                 IF RxContinuous = FALSE THEN MODE_STDBY_RC ELSE @]
             s2 == [s1 EXCEPT !.getPayload = @ + 1]
         IN  Notify(s2, "RxDone", NoType)
    ELSE s

\* if ((irqRegs & IRQ_RX_DONE) == IRQ_RX_DONE): the timer is stopped only in
\* public mode, the mode is demoted only in single mode, the payload is read
\* on both sides of the CRC test
BranchRxDone(s) ==
    IF IRQ_RX_DONE \in s.irqRegs
    THEN LET s1 == [Log(s, "IRQ_RX_DONE") EXCEPT
                             !.rx_timeout_handled = TRUE,
                             !.RxTimeoutTimer =
                                 IF RadioPublicNetwork.Current THEN FALSE ELSE @,
                             !.OperatingMode =
                                 IF RxContinuous = FALSE THEN MODE_STDBY_RC ELSE @]
             s2 == [s1 EXCEPT !.getPayload = @ + 1]
         IN  IF IRQ_CRC_ERROR \in s.irqRegs
             THEN Notify(Log(s2, "IRQ_CRC_ERROR"), "RxError", NoType)
             ELSE Notify(s2, "RxDone", NoType)
    ELSE s

\* if ((irqRegs & IRQ_CAD_DONE) == IRQ_CAD_DONE)
BranchCadDone(s) ==
    IF IRQ_CAD_DONE \in s.irqRegs
    THEN CallRadioEventsUngated([Log(s, "IRQ_CAD_DONE") EXCEPT !.OperatingMode = MODE_STDBY_RC],
                                "CadDone")
    ELSE s

\* BranchRxTxTimeout with every mode but TX taken for a reception
BranchRxTxTimeout_RxOtherwise(s) ==
    IF IRQ_RX_TX_TIMEOUT \in s.irqRegs
    THEN IF s.OperatingMode = MODE_TX
         THEN Notify([Log(s, "IRQ_TX_TIMEOUT") EXCEPT
                               !.tx_timeout_handled = TRUE,
                               !.TxTimeoutTimer = FALSE,
                               !.OperatingMode = MODE_STDBY_RC],
                     "TxTimeout", IRQ_TYPE)
         ELSE Notify([Log(s, "IRQ_RX_TIMEOUT") EXCEPT
                               !.rx_timeout_handled = TRUE,
                               !.RxTimeoutTimer = FALSE,
                               !.OperatingMode = MODE_STDBY_RC],
                     "RxTimeout", IRQ_TYPE)
    ELSE s

\* if ((irqRegs & IRQ_RX_TX_TIMEOUT) == IRQ_RX_TX_TIMEOUT): told apart by the
\* tracked mode at this point of the pass
BranchRxTxTimeout(s) ==
    IF IRQ_RX_TX_TIMEOUT \in s.irqRegs
    THEN IF s.OperatingMode = MODE_TX
         THEN Notify([Log(s, "IRQ_TX_TIMEOUT") EXCEPT
                               !.tx_timeout_handled = TRUE,
                               !.TxTimeoutTimer = FALSE,
                               !.OperatingMode = MODE_STDBY_RC],
                     "TxTimeout", IRQ_TYPE)
         ELSE IF s.OperatingMode = MODE_RX
         THEN Notify([Log(s, "IRQ_RX_TIMEOUT") EXCEPT
                               !.rx_timeout_handled = TRUE,
                               !.RxTimeoutTimer = FALSE,
                               !.OperatingMode = MODE_STDBY_RC],
                     "RxTimeout", IRQ_TYPE)
         ELSE s
    ELSE s

\* if ((irqRegs & IRQ_PREAMBLE_DETECTED) == IRQ_PREAMBLE_DETECTED)
BranchPreambleDetected(s) ==
    IF IRQ_PREAMBLE_DETECTED \in s.irqRegs
    THEN CallRadioEventsUngated(Log(s, "IRQ_PREAMBLE_DETECTED"), "PreAmpDetect")
    ELSE s

\* BranchHeaderError that also marks the RX timeout as handled
BranchHeaderError_MarksHandled(s) ==
    IF IRQ_HEADER_ERROR \in s.irqRegs
    THEN Notify([Log(s, "IRQ_HEADER_ERROR") EXCEPT
                          !.rx_timeout_handled = TRUE,
                          !.RxTimeoutTimer = FALSE,
                          !.OperatingMode =
                              IF RxContinuous = FALSE THEN MODE_STDBY_RC ELSE @],
                "RxError", NoType)
    ELSE s

\* if ((irqRegs & IRQ_HEADER_ERROR) == IRQ_HEADER_ERROR)
BranchHeaderError(s) ==
    IF IRQ_HEADER_ERROR \in s.irqRegs
    THEN Notify([Log(s, "IRQ_HEADER_ERROR") EXCEPT
                          !.RxTimeoutTimer = FALSE,
                          !.OperatingMode =
                              IF RxContinuous = FALSE THEN MODE_STDBY_RC ELSE @],
                "RxError", NoType)
    ELSE s

\* BranchTimerRxTimeout without the test of rx_timeout_handled
BranchTimerRxTimeout_Unguarded(s) ==
    IF s.TimerRxTimeout
    THEN Notify([Log(s, "TimerRxTimeout") EXCEPT !.TimerRxTimeout = FALSE,
                                                 !.RxTimeoutTimer = FALSE],
                "RxTimeout", TIMER_TYPE)
    ELSE s

\* if (TimerRxTimeout) { TimerRxTimeout = false; if (!rx_timeout_handled) ... }
BranchTimerRxTimeout(s) ==
    IF s.TimerRxTimeout
    THEN LET s1 == [s EXCEPT !.TimerRxTimeout = FALSE]
         IN  IF ~s1.rx_timeout_handled
             THEN Notify([Log(s1, "TimerRxTimeout") EXCEPT !.RxTimeoutTimer = FALSE],
                         "RxTimeout", TIMER_TYPE)
             ELSE s1
    ELSE s

\* BranchTimerTxTimeout without TimerTxTimeout = false
BranchTimerTxTimeout_NoClear(s) ==
    IF s.TimerTxTimeout
    THEN IF ~s.tx_timeout_handled
         THEN Notify([Log(s, "TimerTxTimeout") EXCEPT !.TxTimeoutTimer = FALSE],
                     "TxTimeout", TIMER_TYPE)
         ELSE s
    ELSE s

\* if (TimerTxTimeout) { TimerTxTimeout = false; if (!tx_timeout_handled) ... }
BranchTimerTxTimeout(s) ==
    IF s.TimerTxTimeout
    THEN LET s1 == [s EXCEPT !.TimerTxTimeout = FALSE]
         IN  IF ~s1.tx_timeout_handled
             THEN Notify([Log(s1, "TimerTxTimeout") EXCEPT !.TxTimeoutTimer = FALSE],
                         "TxTimeout", TIMER_TYPE)
             ELSE s1
    ELSE s

\* Dispatch with the header-error branch in front of the other branches
Dispatch_HeaderErrorFirst(s) ==
    LET s1 == [s EXCEPT !.irqRegs = s.irqStatus,
                        !.irqStatus = s.irqStatus \ IRQ_RADIO_ALL]
    IN  BranchPreambleDetected(BranchRxTxTimeout(BranchCadDone(BranchRxDone(
            BranchTxDone(BranchHeaderError(s1))))))

\* the branches on irqRegs, in the order of the code
Branches(s) ==
    BranchHeaderError(BranchPreambleDetected(BranchRxTxTimeout(
        BranchCadDone(BranchRxDone(BranchTxDone(s))))))

\* irqRegs = SX126xGetIrqStatus(); SX126xClearIrqStatus(IRQ_RADIO_ALL); and
\* the branches on irqRegs
Dispatch(s) ==
    Branches([s EXCEPT !.irqRegs = s.irqStatus,
                       !.irqStatus = s.irqStatus \ IRQ_RADIO_ALL])

\* if (IrqFired == true) { IrqFired = false; ...Dispatch... }
IrqBranches(s) ==
    IF s.IrqFired = TRUE
    THEN Dispatch([s EXCEPT !.IrqFired = FALSE])
    ELSE s

\* the whole pass, from the state s0 it is entered in
BgIrqProcess(s0) ==
    BranchTimerTxTimeout(BranchTimerRxTimeout(IrqBranches(
        [s0 EXCEPT !.rx_timeout_handled = FALSE, !.tx_timeout_handled = FALSE])))

-----------------------------------------------------------------------------
(* From the variables to the state of a pass and back *)

Entry ==
    [IrqFired |-> IrqFired, TimerRxTimeout |-> TimerRxTimeout,
     TimerTxTimeout |-> TimerTxTimeout, OperatingMode |-> OperatingMode,
     RxTimeoutTimer |-> RxTimeoutTimer, TxTimeoutTimer |-> TxTimeoutTimer,
     irqStatus |-> irqStatus, irqRegs |-> {},
     rx_timeout_handled |-> FALSE, tx_timeout_handled |-> FALSE,
     events |-> <<>>, getPayload |-> 0, log |-> <<>>,
     react |-> NoReaction, started |-> "none"]

NoPass == [src |-> "none"]

\* the record of a pass entered in s0 and left in s, run by src
PassRecord(src, s0, s) ==
    [src |-> src,
     irqRegs |-> s.irqRegs,
     TimerRxIn |-> s0.TimerRxTimeout, TimerTxIn |-> s0.TimerTxTimeout,
     modeIn |-> s0.OperatingMode, modeOut |-> s.OperatingMode,
     rx_timeout_handled |-> s.rx_timeout_handled,
     tx_timeout_handled |-> s.tx_timeout_handled,
     events |-> s.events, getPayload |-> s.getPayload, log |-> s.log]

RECURSIVE CountCalls(_, _, _)
\* how many calls of the callbacks in names the listener set received in evs
CountCalls(evs, set, names) ==
    IF evs = <<>> THEN 0
    ELSE (IF Head(evs).set = set /\ Head(evs).name \in names THEN 1 ELSE 0)
         + CountCalls(Tail(evs), set, names)

Min(a, b) == IF a < b THEN a ELSE b

RxConcluding == {"RxDone", "RxError", "RxTimeout"}
TxConcluding == {"TxDone", "TxTimeout"}

\* the bookkeeping of what the listeners have received so far
Observe(s) ==
    /\ txDoneSeen' = (txDoneSeen \/ \E i \in DOMAIN s.events : s.events[i].name = "TxDone")
    /\ rxConcl' = Min(2, rxConcl + CountCalls(s.events, "_events", RxConcluding))

-----------------------------------------------------------------------------
(* Modem and network mode *)

\* what REG_LR_SYNCWORD holds: the value the chip resets it to, the public or
\* the private LoRaWAN sync word, or a sync word of the application
SYNCWORD_RESET == "reset"
LORA_MAC_PUBLIC_SYNCWORD == "public"
LORA_MAC_PRIVATE_SYNCWORD == "private"
SYNCWORD_CUSTOM == "custom"

cfgVars == <<RadioPublicNetwork, hasCustomSyncWord, _modem>>
lsnVars == <<RadioEvents, _events>>
timerVars == <<TxTimeoutTimer, RxTimeoutTimer>>
flagVars == <<IrqFired, TimerRxTimeout, TimerTxTimeout>>
obsVars == <<txDoneSeen, rxConcl>>
irqVars == <<pc, frame, irqDisabled, access>>
pktVars == <<MaxPayloadLength, TxTimeout, RxTimeout, force_low_dr_opt, SX126x, TimerValue,
             Registers>>
paramVars == <<REG_LR_SYNCWORD, pktVars, calls, txConcl>>

Cfg ==
    [Previous |-> RadioPublicNetwork.Previous, Current |-> RadioPublicNetwork.Current,
     hasCustomSyncWord |-> hasCustomSyncWord, _modem |-> _modem,
     REG_LR_SYNCWORD |-> REG_LR_SYNCWORD]

RECURSIVE SetModem(_, _)
RECURSIVE SetPublicNetwork(_, _)

\* RadioSetModem with the test of hasCustomSyncWord left out
SetModem_IgnoresCustom(c, modem) ==
    IF modem = MODEM_LORA
    THEN LET c1 == IF c.Current # c.Previous
                   THEN SetPublicNetwork([c EXCEPT !.Current = c.Previous], c.Previous)
                   ELSE c
         IN  [c1 EXCEPT !._modem = modem]
    ELSE [c EXCEPT !.Current = FALSE, !._modem = modem,
                   !.REG_LR_SYNCWORD = SYNCWORD_RESET]

\* RadioSetModem with the LoRa case only setting the packet type
SetModem_NoRestore(c, modem) ==
    IF modem = MODEM_LORA
    THEN [c EXCEPT !._modem = modem]
    ELSE [c EXCEPT !.Current = FALSE, !._modem = modem,
                   !.REG_LR_SYNCWORD = SYNCWORD_RESET]

\* RadioSetModem with the FSK case leaving RadioPublicNetwork.Current alone
SetModem_FskKeepsCurrent(c, modem) ==
    IF modem = MODEM_LORA
    THEN LET c1 == IF ~c.hasCustomSyncWord /\ c.Current # c.Previous
                   THEN SetPublicNetwork([c EXCEPT !.Current = c.Previous], c.Previous)
                   ELSE c
         IN  [c1 EXCEPT !._modem = modem]
    ELSE [c EXCEPT !._modem = modem, !.REG_LR_SYNCWORD = SYNCWORD_RESET]

\* RadioSetModem: FSK resets Current, and the switch to GFSK resets the LoRa
\* sync word register; LoRa restores Current from Previous through
\* RadioSetPublicNetwork unless a custom sync word is set
SetModem(c, modem) ==
    IF modem = MODEM_LORA
    THEN LET c1 == IF ~c.hasCustomSyncWord /\ c.Current # c.Previous
                   THEN SetPublicNetwork([c EXCEPT !.Current = c.Previous], c.Previous)
                   ELSE c
         IN  [c1 EXCEPT !._modem = modem]
    ELSE [c EXCEPT !.Current = FALSE, !._modem = modem,
                   !.REG_LR_SYNCWORD = SYNCWORD_RESET]

\* RadioSetPublicNetwork
SetPublicNetwork(c, enable) ==
    LET c1 == SetModem([c EXCEPT !.hasCustomSyncWord = FALSE, !.Current = enable,
                                 !.Previous = enable], MODEM_LORA)
    IN  [c1 EXCEPT !.REG_LR_SYNCWORD = IF enable = TRUE THEN LORA_MAC_PUBLIC_SYNCWORD
                                       ELSE LORA_MAC_PRIVATE_SYNCWORD]

\* RadioSetCustomSyncWord
SetCustomSyncWord(c) ==
    [SetModem([c EXCEPT !.hasCustomSyncWord = TRUE], MODEM_LORA)
        EXCEPT !.REG_LR_SYNCWORD = SYNCWORD_CUSTOM]

SetCfg(c) ==
    /\ RadioPublicNetwork' = [Previous |-> c.Previous, Current |-> c.Current]
    /\ hasCustomSyncWord' = c.hasCustomSyncWord
    /\ _modem' = c._modem

-----------------------------------------------------------------------------
(* Modulation and packet parameters *)

PACKET_TYPE_GFSK == "PACKET_TYPE_GFSK"
PACKET_TYPE_LORA == "PACKET_TYPE_LORA"

\* the packet type SX126xSetPacketType gave the chip: RadioSetModem sets it
\* together with _modem
SX126xGetPacketType ==
    IF _modem = MODEM_LORA THEN PACKET_TYPE_LORA ELSE PACKET_TYPE_GFSK

\* FskBandwidths[]: bandwidth in Hz and register value (0x1F = 31, ..., 0x00)
FskBandwidths ==
    << [bandwidth |-> 4800, RegValue |-> 31],
       [bandwidth |-> 5800, RegValue |-> 23],
       [bandwidth |-> 7300, RegValue |-> 15],
       [bandwidth |-> 9700, RegValue |-> 30],
       [bandwidth |-> 11700, RegValue |-> 22],
       [bandwidth |-> 14600, RegValue |-> 14],
       [bandwidth |-> 19500, RegValue |-> 29],
       [bandwidth |-> 23400, RegValue |-> 21],
       [bandwidth |-> 29300, RegValue |-> 13],
       [bandwidth |-> 39000, RegValue |-> 28],
       [bandwidth |-> 46900, RegValue |-> 20],
       [bandwidth |-> 58600, RegValue |-> 12],
       [bandwidth |-> 78200, RegValue |-> 27],
       [bandwidth |-> 93800, RegValue |-> 19],
       [bandwidth |-> 117300, RegValue |-> 11],
       [bandwidth |-> 156200, RegValue |-> 26],
       [bandwidth |-> 187200, RegValue |-> 18],
       [bandwidth |-> 234300, RegValue |-> 10],
       [bandwidth |-> 312000, RegValue |-> 25],
       [bandwidth |-> 373600, RegValue |-> 17],
       [bandwidth |-> 467000, RegValue |-> 9],
       [bandwidth |-> 500000, RegValue |-> 0] >>

RECURSIVE FskBandwidthLoop(_, _)

\* the for loop of RadioGetFskBandwidthRegValue from index i (0-based, as in
\* the code) to sizeof(FskBandwidths) / sizeof(FskBandwidth_t) - 2
FskBandwidthLoop(bandwidth, i) ==
    IF i < Len(FskBandwidths) - 1
    THEN IF bandwidth >= FskBandwidths[i + 1].bandwidth
            /\ bandwidth < FskBandwidths[i + 2].bandwidth
         THEN FskBandwidths[i + 2].RegValue
         ELSE FskBandwidthLoop(bandwidth, i + 1)
    ELSE 31

\* RadioGetFskBandwidthRegValue(bandwidth)
RadioGetFskBandwidthRegValue(bandwidth) ==
    IF bandwidth = 0 THEN 31 ELSE FskBandwidthLoop(bandwidth, 0)

\* the chip's codes of the LoRa bandwidths
RadioLoRaBandwidths_t ==
    [LORA_BW_500 |-> 6, LORA_BW_250 |-> 5, LORA_BW_125 |-> 4, LORA_BW_062 |-> 3,
     LORA_BW_041 |-> 10, LORA_BW_031 |-> 2, LORA_BW_020 |-> 9, LORA_BW_015 |-> 1,
     LORA_BW_010 |-> 8, LORA_BW_007 |-> 0]

\* the chip's codes of the FSK CRC lengths the driver uses, and the code 0
\* of a zero-initialised field
RADIO_CRC_OFF == "RADIO_CRC_OFF"
RADIO_CRC_2_BYTES_CCIT == "RADIO_CRC_2_BYTES_CCIT"
RADIO_CRC_1_BYTES == "RADIO_CRC_1_BYTES"

\* bit 2 of the registers 0x0736 (RegIqPolaritySetup) and 0x0889
\* (RegTxModulation), "set" or "cleared" once the driver has written it, and
\* after the chip's reset, before the driver writes it
RegistersReset == [IqPolaritySetup |-> "reset", TxModulation |-> "reset"]

\* Bandwidths[]: the LoRa bandwidth of an index
Bandwidths ==
    LET bw == RadioLoRaBandwidths_t
    IN  <<bw.LORA_BW_125, bw.LORA_BW_250, bw.LORA_BW_500, bw.LORA_BW_062, bw.LORA_BW_041,
          bw.LORA_BW_031, bw.LORA_BW_020, bw.LORA_BW_015, bw.LORA_BW_010, bw.LORA_BW_007>>

\* the timeout RadioSetRxConfig stores for LoRa
RXTIMEOUT_LORA_MAX == 65535

\* the parameters before any configuration call: zero-initialised
SX126xInit ==
    [ModulationParams |->
        [PacketType |-> PACKET_TYPE_GFSK,
         Gfsk |-> [BitRate |-> 0, Bandwidth |-> 0],
         LoRa |-> [SpreadingFactor |-> 0, Bandwidth |-> 0, CodingRate |-> 0,
                   LowDatarateOptimize |-> 0]],
     PacketParams |->
        [PacketType |-> PACKET_TYPE_GFSK,
         Gfsk |-> [PreambleLength |-> 0, SyncWordLength |-> 0, HeaderType |-> FALSE,
                   PayloadLength |-> 0, CrcLength |-> RADIO_CRC_1_BYTES],
         LoRa |-> [PreambleLength |-> 0, HeaderType |-> FALSE, PayloadLength |-> 0,
                   CrcMode |-> FALSE, InvertIQ |-> FALSE]]]

\* the LoRa modulation parameters with the optimization also switched on
\* for 250 kHz and spreading factor 11
LoRaModulation_Sf11At250(bandwidth, datarate) ==
    [SpreadingFactor |-> datarate,
     Bandwidth |-> Bandwidths[bandwidth + 1],
     LowDatarateOptimize |->
        IF \/ (bandwidth = 0 /\ (datarate = 11 \/ datarate = 12))
           \/ (bandwidth = 1 /\ (datarate = 11 \/ datarate = 12))
           \/ force_low_dr_opt
        THEN 1 ELSE 0]

\* the LoRa modulation parameters RadioSetRxConfig and RadioSetTxConfig store
LoRaModulation(bandwidth, datarate) ==
    [SpreadingFactor |-> datarate,
     Bandwidth |-> Bandwidths[bandwidth + 1],
     LowDatarateOptimize |->
        IF \/ (bandwidth = 0 /\ (datarate = 11 \/ datarate = 12))
           \/ (bandwidth = 1 /\ datarate = 12)
           \/ force_low_dr_opt
        THEN 1 ELSE 0]

\* the LoRa preamble length with the minimum of 12 symbols applied only to
\* spreading factor 5
LoRaPreambleLength_Sf5Only(datarate, preambleLen) ==
    IF datarate = 5
    THEN IF preambleLen < 12 THEN 12 ELSE preambleLen
    ELSE preambleLen

\* the LoRa preamble length RadioSetRxConfig and RadioSetTxConfig store
\* (LORA_SF5 = 5, LORA_SF6 = 6)
LoRaPreambleLength(datarate, preambleLen) ==
    IF datarate = 5 \/ datarate = 6
    THEN IF preambleLen < 12 THEN 12 ELSE preambleLen
    ELSE preambleLen

-----------------------------------------------------------------------------
(* The execution contexts of SpecIrq: the task that calls RadioBgIrqProcess  *)
(* and the context the timer service runs the expiry callbacks in            *)

Procs == {"task", "timer"}

\* the locals of a pass and, until the pass tests TimerRxTimeout, whether
\* IrqFired was true again when the status was read and the flags
\* SX126xClearIrqStatus erased that had not been read
NoFrame ==
    [rx_timeout_handled |-> FALSE, tx_timeout_handled |-> FALSE, timer |-> "-",
     irqRegs |-> {}, firedAtRead |-> FALSE, lost |-> {}]

NoAccess == [flag |-> "-", op |-> "-", by |-> "-", masked |-> TRUE]

-----------------------------------------------------------------------------
(* The state after the static initialisers and RadioInit *)

Init ==
    /\ RadioEvents \in BOOLEAN
    /\ _events \in BOOLEAN
    /\ RadioPublicNetwork = [Previous |-> FALSE, Current |-> FALSE]
    /\ hasCustomSyncWord = FALSE
    /\ _modem = MODEM_FSK
    /\ RxContinuous = FALSE
    /\ OperatingMode = MODE_STDBY_RC
    /\ TxTimeoutTimer = FALSE
    /\ RxTimeoutTimer = FALSE
    /\ IrqFired = FALSE
    /\ TimerRxTimeout = FALSE
    /\ TimerTxTimeout = FALSE
    /\ irqStatus = {}
    /\ chipMode = "STDBY"
    /\ dio1 = FALSE
    /\ pass = NoPass
    /\ txDoneSeen = FALSE
    /\ rxConcl = 0
    /\ txConcl = 0
    /\ pc = [p \in Procs |-> "idle"]
    /\ frame = [p \in Procs |-> NoFrame]
    /\ irqDisabled = FALSE
    /\ access = NoAccess
    /\ REG_LR_SYNCWORD = SYNCWORD_RESET
    /\ MaxPayloadLength = 255
    /\ TxTimeout = 0
    /\ RxTimeout = 0
    /\ force_low_dr_opt = FALSE
    /\ SX126x = SX126xInit
    /\ TimerValue = [Tx |-> 0, Rx |-> 0]
    /\ Registers = RegistersReset
    /\ calls = <<>>

-----------------------------------------------------------------------------
(* Orchestrator calls *)

\* RadioInit(events) / RadioReInit(events): the chip is reset and put in
\* standby with every IRQ enabled; the timers are only given their callbacks
RadioInit(events) ==
    /\ RadioEvents' = events
    /\ chipMode' = "STDBY"
    /\ OperatingMode' = MODE_STDBY_RC
    /\ irqStatus' = {}
    /\ IrqFired' = FALSE
    /\ pass' = NoPass
    /\ UNCHANGED <<_events, cfgVars, RxContinuous, timerVars, TimerRxTimeout,
                   TimerTxTimeout, dio1, obsVars, irqVars>>

\* setLoRaEvents(events)
setLoRaEvents(events) ==
    /\ _events' = events
    /\ pass' = NoPass
    /\ UNCHANGED <<RadioEvents, cfgVars, RxContinuous, OperatingMode, timerVars, flagVars,
                   irqStatus, chipMode, dio1, obsVars, irqVars>>

\* RadioSetPublicNetwork(enable)
RadioSetPublicNetwork(enable) ==
    /\ SetCfg(SetPublicNetwork(Cfg, enable))
    /\ pass' = NoPass
    /\ UNCHANGED <<lsnVars, RxContinuous, OperatingMode, timerVars, flagVars,
                   irqStatus, chipMode, dio1, obsVars, irqVars>>

\* RadioSetModem(modem)
RadioSetModem(modem) ==
    /\ SetCfg(SetModem(Cfg, modem))
    /\ pass' = NoPass
    /\ UNCHANGED <<lsnVars, RxContinuous, OperatingMode, timerVars, flagVars,
                   irqStatus, chipMode, dio1, obsVars, irqVars>>

\* RadioSetCustomSyncWord(syncword)
RadioSetCustomSyncWord ==
    /\ SetCfg(SetCustomSyncWord(Cfg))
    /\ pass' = NoPass
    /\ UNCHANGED <<lsnVars, RxContinuous, OperatingMode, timerVars, flagVars,
                   irqStatus, chipMode, dio1, obsVars, irqVars>>

\* RadioSetTxConfig(modem, ...): both cases go through RadioStandby
RadioSetTxConfig(modem) ==
    /\ SetCfg(SetModem(Cfg, modem))
    /\ OperatingMode' = MODE_STDBY_RC
    /\ chipMode' = "STDBY"
    /\ pass' = NoPass
    /\ UNCHANGED <<lsnVars, RxContinuous, timerVars, flagVars, irqStatus,
                   dio1, obsVars, irqVars>>

\* RadioSetRxConfig(modem, ..., rxContinuous): the FSK case goes through
\* RadioStandby, the LoRa case does not
RadioSetRxConfig(modem, rxContinuous) ==
    /\ RxContinuous' = rxContinuous
    /\ SetCfg(SetModem(Cfg, modem))
    /\ IF modem = MODEM_FSK
       THEN OperatingMode' = MODE_STDBY_RC /\ chipMode' = "STDBY"
       ELSE UNCHANGED <<OperatingMode, chipMode>>
    /\ pass' = NoPass
    /\ UNCHANGED <<lsnVars, timerVars, flagVars, irqStatus, dio1, obsVars, irqVars>>

\* RadioSend(buffer, size)
RadioSend ==
    /\ chipMode' = "TX"
    /\ OperatingMode' = MODE_TX
    /\ TxTimeoutTimer' = TRUE
    /\ txDoneSeen' = FALSE
    /\ pass' = NoPass
    /\ UNCHANGED <<lsnVars, cfgVars, RxContinuous, RxTimeoutTimer, flagVars,
                   irqStatus, dio1, rxConcl, irqVars>>

\* RadioRx with the RX timer started whatever the timeout
RadioRx_AlwaysArms(timeout) ==
    /\ RxTimeoutTimer' = TRUE
    /\ chipMode' = IF RxContinuous = TRUE THEN "RXC" ELSE "RX"
    /\ OperatingMode' = MODE_RX
    /\ rxConcl' = 0
    /\ pass' = NoPass
    /\ UNCHANGED <<lsnVars, cfgVars, RxContinuous, TxTimeoutTimer, flagVars,
                   irqStatus, dio1, txDoneSeen, irqVars>>

\* RadioRx(timeout)
RadioRx(timeout) ==
    /\ RxTimeoutTimer' = IF timeout # 0 THEN TRUE ELSE RxTimeoutTimer
    /\ chipMode' = IF RxContinuous = TRUE THEN "RXC" ELSE "RX"
    /\ OperatingMode' = MODE_RX
    /\ rxConcl' = 0
    /\ pass' = NoPass
    /\ UNCHANGED <<lsnVars, cfgVars, RxContinuous, TxTimeoutTimer, flagVars,
                   irqStatus, dio1, txDoneSeen, irqVars>>

\* RadioRxBoosted(timeout)
RadioRxBoosted(timeout) ==
    /\ RxTimeoutTimer' = IF RxContinuous = TRUE /\ timeout # 0 THEN TRUE ELSE RxTimeoutTimer
    /\ chipMode' = IF RxContinuous = TRUE THEN "RXC" ELSE "RX"
    /\ OperatingMode' = MODE_RX
    /\ rxConcl' = 0
    /\ pass' = NoPass
    /\ UNCHANGED <<lsnVars, cfgVars, RxContinuous, TxTimeoutTimer, flagVars,
                   irqStatus, dio1, txDoneSeen, irqVars>>

\* RadioSetRxDutyCycle(rxTime, sleepTime)
RadioSetRxDutyCycle ==
    /\ chipMode' = "RXDC"
    /\ OperatingMode' = MODE_RX_DC
    /\ pass' = NoPass
    /\ UNCHANGED <<lsnVars, cfgVars, RxContinuous, timerVars, flagVars,
                   irqStatus, dio1, obsVars, irqVars>>

\* RadioStartCad()
RadioStartCad ==
    /\ chipMode' = "CAD"
    /\ OperatingMode' = MODE_CAD
    /\ pass' = NoPass
    /\ UNCHANGED <<lsnVars, cfgVars, RxContinuous, timerVars, flagVars,
                   irqStatus, dio1, obsVars, irqVars>>

\* RadioStandby()
RadioStandby ==
    /\ chipMode' = "STDBY"
    /\ OperatingMode' = MODE_STDBY_RC
    /\ pass' = NoPass
    /\ UNCHANGED <<lsnVars, cfgVars, RxContinuous, timerVars, flagVars,
                   irqStatus, dio1, obsVars, irqVars>>

\* RadioSleep()
RadioSleep ==
    /\ chipMode' = "STDBY"
    /\ OperatingMode' = MODE_SLEEP
    /\ pass' = NoPass
    /\ UNCHANGED <<lsnVars, cfgVars, RxContinuous, timerVars, flagVars,
                   irqStatus, dio1, obsVars, irqVars>>

-----------------------------------------------------------------------------
(* The transceiver: it latches a flag of the current mask in its IRQ status *)
(* and raises DIO1                                                          *)

\* the mask SX126xSetDioIrqParams wrote when the running operation was started
IrqMask ==
    CASE chipMode = "TX" -> SendIrqMask
      [] chipMode \in {"RX", "RXC"} -> RxIrqMask
      [] chipMode = "CAD" -> CadIrqMask
      [] chipMode = "RXDC" -> IRQ_RADIO_ALL
      [] OTHER -> IRQ_RADIO_NONE

Latch(flags) ==
    /\ flags \subseteq IrqMask
    /\ Cardinality(irqStatus \cup flags) <= MaxLatched
    /\ irqStatus' = irqStatus \cup flags
    /\ dio1' = TRUE
    /\ pass' = NoPass
    /\ UNCHANGED <<lsnVars, cfgVars, RxContinuous, OperatingMode, timerVars, flagVars,
                   obsVars, irqVars>>

\* the transmission ends
ChipTxDone ==
    /\ chipMode = "TX"
    /\ Latch({IRQ_TX_DONE})
    /\ chipMode' = "STDBY"

\* a packet is received, with or without a CRC error; a single reception ends
ChipRxDone(crcError) ==
    /\ chipMode \in {"RX", "RXC", "RXDC"}
    /\ Latch(IF crcError THEN {IRQ_RX_DONE, IRQ_CRC_ERROR} ELSE {IRQ_RX_DONE})
    /\ chipMode' = IF chipMode = "RXC" THEN chipMode ELSE "STDBY"

\* the chip's own timeout of a transmission or of a single reception
ChipTimeout ==
    /\ chipMode \in {"TX", "RX"}
    /\ Latch({IRQ_RX_TX_TIMEOUT})
    /\ chipMode' = "STDBY"

\* a LoRa header with a bad CRC is received
ChipHeaderError ==
    /\ chipMode \in {"RX", "RXC"}
    /\ Latch({IRQ_HEADER_ERROR})
    /\ UNCHANGED chipMode

\* a preamble is detected
ChipPreambleDetected ==
    /\ chipMode \in {"RX", "RXC", "RXDC"}
    /\ Latch({IRQ_PREAMBLE_DETECTED})
    /\ UNCHANGED chipMode

\* channel activity detection ends
ChipCadDone ==
    /\ chipMode = "CAD"
    /\ Latch({IRQ_CAD_DONE})
    /\ chipMode' = "STDBY"

-----------------------------------------------------------------------------
(* Interrupt handler, timer callbacks and the pass *)

\* a handler that also reads and clears the chip's IRQ status
RadioOnDioIrq_ClearsIrq ==
    /\ dio1
    /\ dio1' = FALSE
    /\ IrqFired' = TRUE
    /\ irqStatus' = {}
    /\ pass' = NoPass
    /\ UNCHANGED <<lsnVars, cfgVars, RxContinuous, OperatingMode, timerVars,
                   TimerRxTimeout, TimerTxTimeout, chipMode, obsVars, irqVars>>

\* RadioOnDioIrq
RadioOnDioIrq ==
    /\ dio1
    /\ dio1' = FALSE
    /\ IrqFired' = TRUE
    /\ pass' = NoPass
    /\ UNCHANGED <<lsnVars, cfgVars, RxContinuous, OperatingMode, timerVars,
                   TimerRxTimeout, TimerTxTimeout, irqStatus, chipMode,
                   obsVars, irqVars>>

\* the state a pass leaves behind, but for the tracked mode
Commit(src, s0, s) ==
    /\ IrqFired' = s.IrqFired
    /\ TimerRxTimeout' = s.TimerRxTimeout
    /\ TimerTxTimeout' = s.TimerTxTimeout
    /\ RxTimeoutTimer' = s.RxTimeoutTimer
    /\ TxTimeoutTimer' = s.TxTimeoutTimer
    /\ irqStatus' = s.irqStatus
    /\ pass' = PassRecord(src, s0, s)
    /\ Observe(s)
    /\ UNCHANGED <<lsnVars, cfgVars, RxContinuous, dio1, irqVars>>

\* RadioBgIrqProcess called by the task that the interrupt handler wakes up
RadioBgIrqProcess ==
    \E s0 \in {Entry} : \E s \in {BgIrqProcess(s0)} :
        /\ Commit("task", s0, s)
        /\ OperatingMode' = s.OperatingMode
        /\ UNCHANGED chipMode

\* RadioOnTxTimeoutIrq: the TX timer expires
RadioOnTxTimeoutIrq ==
    /\ TxTimeoutTimer
    /\ \E s0 \in {[Entry EXCEPT !.TimerTxTimeout = TRUE, !.TxTimeoutTimer = FALSE]} :
       \E s \in {BgIrqProcess(s0)} :
           /\ Commit("RadioOnTxTimeoutIrq", s0, s)
           /\ OperatingMode' = MODE_SLEEP
           /\ chipMode' = "STDBY"

\* RadioOnRxTimeoutIrq: the RX timer expires
RadioOnRxTimeoutIrq ==
    /\ RxTimeoutTimer
    /\ \E s0 \in {[Entry EXCEPT !.TimerRxTimeout = TRUE, !.RxTimeoutTimer = FALSE]} :
       \E s \in {BgIrqProcess(s0)} :
           /\ Commit("RadioOnRxTimeoutIrq", s0, s)
           /\ OperatingMode' = MODE_SLEEP
           /\ chipMode' = "STDBY"

\* RadioIrqProcessAfterDeepSleep
RadioIrqProcessAfterDeepSleep ==
    LET s0 == [Entry EXCEPT !.IrqFired = TRUE]
        s == BgIrqProcess(s0)
    IN  /\ Commit("RadioIrqProcessAfterDeepSleep", s0, s)
        /\ OperatingMode' = s.OperatingMode
        /\ UNCHANGED chipMode

-----------------------------------------------------------------------------

Next ==
    \/ \E e \in BOOLEAN : RadioInit(e) /\ UNCHANGED paramVars
    \/ \E m \in {MODEM_FSK, MODEM_LORA} : RadioSetModem(m) /\ UNCHANGED paramVars
    \/ \E m \in {MODEM_FSK, MODEM_LORA} : RadioSetTxConfig(m) /\ UNCHANGED paramVars
    \/ RadioSetRxDutyCycle /\ UNCHANGED paramVars
    \/ RadioSleep /\ UNCHANGED paramVars
    \/ ChipPreambleDetected /\ UNCHANGED paramVars

    \/ \E e \in BOOLEAN : setLoRaEvents(e) /\ UNCHANGED paramVars
    \/ \E b \in BOOLEAN : RadioSetPublicNetwork(b) /\ UNCHANGED paramVars
    \/ \E m \in {MODEM_FSK, MODEM_LORA}, c \in BOOLEAN : RadioSetRxConfig(m, c) /\ UNCHANGED paramVars
    \/ RadioSend /\ UNCHANGED paramVars
    \/ \E t \in {0, 1} : RadioRx(t) /\ UNCHANGED paramVars
    \/ \E t \in {0, 1} : RadioRxBoosted(t) /\ UNCHANGED paramVars
    \/ RadioStartCad /\ UNCHANGED paramVars
    \/ RadioStandby /\ UNCHANGED paramVars
    \/ ChipTxDone /\ UNCHANGED paramVars
    \/ \E c \in BOOLEAN : ChipRxDone(c) /\ UNCHANGED paramVars
    \/ ChipTimeout /\ UNCHANGED paramVars
    \/ ChipHeaderError /\ UNCHANGED paramVars
    \/ ChipCadDone /\ UNCHANGED paramVars
    \/ RadioOnDioIrq /\ UNCHANGED paramVars
    \/ RadioBgIrqProcess /\ UNCHANGED paramVars
    \/ RadioOnTxTimeoutIrq /\ UNCHANGED paramVars
    \/ RadioOnRxTimeoutIrq /\ UNCHANGED paramVars

Spec == Init /\ [][Next]_vars

-----------------------------------------------------------------------------
(* SpecIrq: the handlers line by line.  A timer callback preempts the task   *)
(* wherever the interrupts are enabled and runs to its end, RadioBgIrqProcess *)
(* included, before the task goes on (the passes nest, they do not overlap);  *)
(* the DIO interrupt is taken wherever the interrupts are enabled.            *)

InBracket(p) == pc[p] \in {"L1367", "L1368", "L1292", "L1293"}
CanRun(p) == IF p = "task" THEN pc["timer"] = "idle" ELSE ~InBracket("task")
AllIdle == \A p \in Procs : pc[p] = "idle"

Touch(flag, op, by) == [flag |-> flag, op |-> op, by |-> by, masked |-> irqDisabled]

Goto(p, line) == pc' = [pc EXCEPT ![p] = line]

envVars == <<lsnVars, cfgVars, RxContinuous, pass, obsVars>>

\* the task calls RadioBgIrqProcess
TaskCall ==
    /\ pc["task"] = "idle"
    /\ CanRun("task")
    /\ Goto("task", "L1364")
    /\ frame' = [frame EXCEPT !["task"] = NoFrame]
    /\ UNCHANGED <<envVars, OperatingMode, timerVars, flagVars, irqStatus, chipMode, dio1,
                   irqDisabled, access>>

\* line 1364: if (IrqFired == true)
L1364(p) ==
    /\ pc[p] = "L1364"
    /\ CanRun(p)
    /\ access' = Touch("IrqFired", "read", "RadioBgIrqProcess")
    /\ Goto(p, IF IrqFired = TRUE THEN "L1366" ELSE "L1559")
    /\ UNCHANGED <<envVars, OperatingMode, timerVars, flagVars, irqStatus, chipMode, dio1,
                   frame, irqDisabled>>

\* line 1366: BoardDisableIrq()
L1366(p) ==
    /\ pc[p] = "L1366"
    /\ CanRun(p)
    /\ irqDisabled' = TRUE
    /\ Goto(p, "L1367")
    /\ UNCHANGED <<envVars, OperatingMode, timerVars, flagVars, irqStatus, chipMode, dio1,
                   frame, access>>

\* line 1367: IrqFired = false
L1367(p) ==
    /\ pc[p] = "L1367"
    /\ IrqFired' = FALSE
    /\ access' = Touch("IrqFired", "write", "RadioBgIrqProcess")
    /\ Goto(p, "L1368")
    /\ UNCHANGED <<envVars, OperatingMode, timerVars, TimerRxTimeout, TimerTxTimeout,
                   irqStatus, chipMode, dio1, frame, irqDisabled>>

\* line 1368: BoardEnableIrq()
L1368(p) ==
    /\ pc[p] = "L1368"
    /\ irqDisabled' = FALSE
    /\ Goto(p, "L1370")
    /\ UNCHANGED <<envVars, OperatingMode, timerVars, flagVars, irqStatus, chipMode, dio1,
                   frame, access>>

\* line 1370: uint16_t irqRegs = SX126xGetIrqStatus()
L1370(p) ==
    /\ pc[p] = "L1370"
    /\ CanRun(p)
    /\ frame' = [frame EXCEPT ![p].irqRegs = irqStatus, ![p].firedAtRead = IrqFired]
    /\ Goto(p, "L1371")
    /\ UNCHANGED <<envVars, OperatingMode, timerVars, flagVars, irqStatus, chipMode, dio1,
                   irqDisabled, access>>

\* L1371 with only the flags that were read cleared on the chip
L1371_ClearsWhatWasRead(p) ==
    /\ pc[p] = "L1371"
    /\ CanRun(p)
    /\ LET s == Branches([Entry EXCEPT !.irqRegs = frame[p].irqRegs])
       IN  /\ OperatingMode' = s.OperatingMode
           /\ RxTimeoutTimer' = s.RxTimeoutTimer
           /\ TxTimeoutTimer' = s.TxTimeoutTimer
           /\ irqStatus' = irqStatus \ frame[p].irqRegs
           /\ frame' = [frame EXCEPT ![p].rx_timeout_handled = s.rx_timeout_handled,
                                     ![p].tx_timeout_handled = s.tx_timeout_handled,
                                     ![p].irqRegs = {},
                                     ![p].lost = {}]
    /\ Goto(p, "L1559")
    /\ UNCHANGED <<envVars, flagVars, chipMode, dio1, irqDisabled, access>>

\* lines 1371-1557: SX126xClearIrqStatus(IRQ_RADIO_ALL), then the branches
\* run on the irqRegs that line 1370 read
L1371(p) ==
    /\ pc[p] = "L1371"
    /\ CanRun(p)
    /\ LET s == Branches([Entry EXCEPT !.irqRegs = frame[p].irqRegs])
       IN  /\ OperatingMode' = s.OperatingMode
           /\ RxTimeoutTimer' = s.RxTimeoutTimer
           /\ TxTimeoutTimer' = s.TxTimeoutTimer
           /\ irqStatus' = irqStatus \ IRQ_RADIO_ALL
           /\ frame' = [frame EXCEPT ![p].rx_timeout_handled = s.rx_timeout_handled,
                                     ![p].tx_timeout_handled = s.tx_timeout_handled,
                                     ![p].irqRegs = {},
                                     ![p].lost = irqStatus \ frame[p].irqRegs]
    /\ Goto(p, "L1559")
    /\ UNCHANGED <<envVars, flagVars, chipMode, dio1, irqDisabled, access>>

\* line 1559: if (TimerRxTimeout)
L1559(p) ==
    /\ pc[p] = "L1559"
    /\ CanRun(p)
    /\ access' = Touch("TimerRxTimeout", "read", "RadioBgIrqProcess")
    /\ frame' = [frame EXCEPT ![p].firedAtRead = FALSE, ![p].lost = {}]
    /\ Goto(p, IF TimerRxTimeout THEN "L1561" ELSE "L1579")
    /\ UNCHANGED <<envVars, OperatingMode, timerVars, flagVars, irqStatus, chipMode, dio1,
                   irqDisabled>>

\* lines 1561-1577: TimerRxTimeout = false; if (!rx_timeout_handled) TimerStop and the calls
L1561(p) ==
    /\ pc[p] = "L1561"
    /\ CanRun(p)
    /\ TimerRxTimeout' = FALSE
    /\ access' = Touch("TimerRxTimeout", "write", "RadioBgIrqProcess")
    /\ RxTimeoutTimer' = IF ~frame[p].rx_timeout_handled THEN FALSE ELSE RxTimeoutTimer
    /\ Goto(p, "L1579")
    /\ UNCHANGED <<envVars, OperatingMode, TxTimeoutTimer, IrqFired, TimerTxTimeout,
                   irqStatus, chipMode, dio1, frame, irqDisabled>>

\* where RadioBgIrqProcess returns to
Return(p) == IF p = "timer" THEN "L1297" ELSE "idle"

\* line 1579: if (TimerTxTimeout)
L1579(p) ==
    /\ pc[p] = "L1579"
    /\ CanRun(p)
    /\ access' = Touch("TimerTxTimeout", "read", "RadioBgIrqProcess")
    /\ Goto(p, IF TimerTxTimeout THEN "L1581" ELSE Return(p))
    /\ UNCHANGED <<envVars, OperatingMode, timerVars, flagVars, irqStatus, chipMode, dio1,
                   frame, irqDisabled>>

\* lines 1581-1598: TimerTxTimeout = false; if (!tx_timeout_handled) TimerStop and the calls
L1581(p) ==
    /\ pc[p] = "L1581"
    /\ CanRun(p)
    /\ TimerTxTimeout' = FALSE
    /\ access' = Touch("TimerTxTimeout", "write", "RadioBgIrqProcess")
    /\ TxTimeoutTimer' = IF ~frame[p].tx_timeout_handled THEN FALSE ELSE TxTimeoutTimer
    /\ Goto(p, Return(p))
    /\ UNCHANGED <<envVars, OperatingMode, RxTimeoutTimer, IrqFired, TimerRxTimeout,
                   irqStatus, chipMode, dio1, frame, irqDisabled>>

\* a timer expires and its callback starts: line 1291 / 1307, BoardDisableIrq()
L1291(timer) ==
    /\ pc["timer"] = "idle"
    /\ CanRun("timer")
    /\ IF timer = "Tx" THEN TxTimeoutTimer ELSE RxTimeoutTimer
    /\ irqDisabled' = TRUE
    /\ frame' = [frame EXCEPT !["timer"] = [NoFrame EXCEPT !.timer = timer]]
    /\ Goto("timer", "L1292")
    /\ UNCHANGED <<envVars, OperatingMode, timerVars, flagVars, irqStatus, chipMode, dio1,
                   access>>

\* line 1292 / 1308: TimerTxTimeout = true / TimerRxTimeout = true
L1292 ==
    /\ pc["timer"] = "L1292"
    /\ IF frame["timer"].timer = "Tx"
       THEN /\ TimerTxTimeout' = TRUE
            /\ access' = Touch("TimerTxTimeout", "write", "RadioOnTxTimeoutIrq")
            /\ UNCHANGED TimerRxTimeout
       ELSE /\ TimerRxTimeout' = TRUE
            /\ access' = Touch("TimerRxTimeout", "write", "RadioOnRxTimeoutIrq")
            /\ UNCHANGED TimerTxTimeout
    /\ Goto("timer", "L1293")
    /\ UNCHANGED <<envVars, OperatingMode, timerVars, IrqFired, irqStatus, chipMode, dio1,
                   frame, irqDisabled>>

\* line 1293 / 1309: BoardEnableIrq()
L1293 ==
    /\ pc["timer"] = "L1293"
    /\ irqDisabled' = FALSE
    /\ Goto("timer", "L1294")
    /\ UNCHANGED <<envVars, OperatingMode, timerVars, flagVars, irqStatus, chipMode, dio1,
                   frame, access>>

\* lines 1294-1296 / 1310-1312: TimerStop, then RadioBgIrqProcess is entered
L1294 ==
    /\ pc["timer"] = "L1294"
    /\ CanRun("timer")
    /\ IF frame["timer"].timer = "Tx"
       THEN TxTimeoutTimer' = FALSE /\ UNCHANGED RxTimeoutTimer
       ELSE RxTimeoutTimer' = FALSE /\ UNCHANGED TxTimeoutTimer
    /\ Goto("timer", "L1364")
    /\ UNCHANGED <<envVars, OperatingMode, flagVars, irqStatus, chipMode, dio1,
                   frame, irqDisabled, access>>

\* lines 1297-1298 / 1313-1314: RadioStandby(); RadioSleep()
L1297 ==
    /\ pc["timer"] = "L1297"
    /\ CanRun("timer")
    /\ OperatingMode' = MODE_SLEEP
    /\ chipMode' = "STDBY"
    /\ Goto("timer", "idle")
    /\ UNCHANGED <<envVars, timerVars, flagVars, irqStatus, dio1, frame, irqDisabled, access>>

\* RadioOnDioIrq as an interrupt: lines 1343-1345, taken when interrupts are enabled
DioIsr ==
    /\ dio1
    /\ ~irqDisabled
    /\ dio1' = FALSE
    /\ IrqFired' = TRUE
    /\ access' = [flag |-> "IrqFired", op |-> "write", by |-> "RadioOnDioIrq", masked |-> TRUE]
    /\ UNCHANGED <<envVars, OperatingMode, timerVars, TimerRxTimeout, TimerTxTimeout,
                   irqStatus, chipMode, pc, frame, irqDisabled>>

NextIrq ==
    \/ TaskCall /\ UNCHANGED paramVars
    \/ \E p \in Procs : L1364(p) /\ UNCHANGED paramVars
    \/ \E p \in Procs : L1366(p) /\ UNCHANGED paramVars
    \/ \E p \in Procs : L1367(p) /\ UNCHANGED paramVars
    \/ \E p \in Procs : L1368(p) /\ UNCHANGED paramVars
    \/ \E p \in Procs : L1370(p) /\ UNCHANGED paramVars
    \/ \E p \in Procs : L1371(p) /\ UNCHANGED paramVars
    \/ \E p \in Procs : L1559(p) /\ UNCHANGED paramVars
    \/ \E p \in Procs : L1561(p) /\ UNCHANGED paramVars
    \/ \E p \in Procs : L1579(p) /\ UNCHANGED paramVars
    \/ \E p \in Procs : L1581(p) /\ UNCHANGED paramVars
    \/ \E timer \in {"Rx", "Tx"} : L1291(timer) /\ UNCHANGED paramVars
    \/ L1292 /\ UNCHANGED paramVars
    \/ L1293 /\ UNCHANGED paramVars
    \/ L1294 /\ UNCHANGED paramVars
    \/ L1297 /\ UNCHANGED paramVars
    \/ DioIsr /\ UNCHANGED paramVars
    \/ AllIdle /\ RadioSend /\ UNCHANGED paramVars
    \/ AllIdle /\ RadioRx(1) /\ UNCHANGED paramVars
    \/ ChipTxDone /\ UNCHANGED paramVars
    \/ \E c \in BOOLEAN : ChipRxDone(c) /\ UNCHANGED paramVars
    \/ ChipTimeout /\ UNCHANGED paramVars
    \/ ChipHeaderError /\ UNCHANGED paramVars

SpecIrq == Init /\ [][NextIrq]_vars

-----------------------------------------------------------------------------
(* SpecSync: the calls that touch the modem, the network mode and the LoRa   *)
(* sync word, with the sync word register and the last calls                 *)

\* at most this many calls are remembered
MaxCalls == 2

\* the call is put in front of the remembered calls
Remember(call) ==
    /\ calls' = <<call>> \o (IF Len(calls) < MaxCalls THEN calls
                             ELSE SubSeq(calls, 1, MaxCalls - 1))
    /\ UNCHANGED txConcl

\* a call op(arg) made in the state Cfg that leaves the configuration c
Called(op, arg, c) ==
    /\ REG_LR_SYNCWORD' = c.REG_LR_SYNCWORD
    /\ Remember([op |-> op, arg |-> arg, before |-> Cfg])
    /\ UNCHANGED pktVars

\* RadioGetSyncWord(): RadioSetModem(MODEM_LORA), then the register is read
RadioGetSyncWord == RadioSetModem(MODEM_LORA)

\* RadioRandom(): RadioSetModem(MODEM_LORA), SX126xSetRx(0), SX126xGetRandom,
\* RadioSleep
RadioRandom ==
    /\ SetCfg(SetModem(Cfg, MODEM_LORA))
    /\ OperatingMode' = MODE_SLEEP
    /\ chipMode' = "STDBY"
    /\ pass' = NoPass
    /\ UNCHANGED <<lsnVars, RxContinuous, timerVars, flagVars, irqStatus,
                   dio1, obsVars, irqVars>>

Modems == {MODEM_FSK, MODEM_LORA}

NextSync ==
    \/ \E b \in BOOLEAN :
          RadioSetPublicNetwork(b)
              /\ Called("RadioSetPublicNetwork", b, SetPublicNetwork(Cfg, b))
    \/ RadioSetCustomSyncWord
          /\ Called("RadioSetCustomSyncWord", "-", SetCustomSyncWord(Cfg))
    \/ \E m \in Modems :
          RadioSetModem(m) /\ Called("RadioSetModem", m, SetModem(Cfg, m))
    \/ \E m \in Modems, c \in BOOLEAN :
          RadioSetRxConfig(m, c) /\ Called("RadioSetRxConfig", m, SetModem(Cfg, m))
    \/ \E m \in Modems :
          RadioSetTxConfig(m) /\ Called("RadioSetTxConfig", m, SetModem(Cfg, m))
    \/ RadioGetSyncWord
          /\ Called("RadioGetSyncWord", "-", SetModem(Cfg, MODEM_LORA))
    \/ RadioRandom /\ Called("RadioRandom", "-", SetModem(Cfg, MODEM_LORA))

SpecSync == Init /\ [][NextSync]_vars

-----------------------------------------------------------------------------
(* What the calls do to the parameters the driver keeps, and the commands    *)
(* they give the chip and the timers                                         *)

\* a call op(args) that gave the chip and the timers the commands cmds; only
\* this last call is remembered
Invoked(op, args, cmds) ==
    /\ calls' = << [op |-> op, args |-> args, cmds |-> cmds] >>
    /\ UNCHANGED txConcl

\* x << 6 in 32 bits
Shl6(x) == (x % 67108864) * 64

\* 0xFFFFFF, the timeout of a continuous reception
RX_CONTINUOUS == 16777215

\* preambleLen << 3 stored in a uint16_t
Shl3(x) == (x * 8) % 65536

\* the CRC length stored for crcOn
GfskCrcLength(crcOn) ==
    IF crcOn = TRUE THEN RADIO_CRC_2_BYTES_CCIT ELSE RADIO_CRC_OFF

\* the LoRa modulation parameters with the coding rate stored along
WithCodingRate(m, coderate) ==
    [SpreadingFactor |-> m.SpreadingFactor,
     Bandwidth |-> m.Bandwidth,
     CodingRate |-> coderate,
     LowDatarateOptimize |-> m.LowDatarateOptimize]

\* the write to 0x0736 with bit 2 set whatever the IQ setup
IqPolarityWorkaround_AlwaysSet(iqInverted) ==
    [Registers EXCEPT !.IqPolaritySetup = "set"]

\* the workaround of RadioSetRxConfig, LoRa case: bit 2 of 0x0736 is cleared
\* for an inverted IQ setup and set otherwise
IqPolarityWorkaround(iqInverted) ==
    [Registers EXCEPT !.IqPolaritySetup = IF iqInverted = TRUE THEN "cleared" ELSE "set"]

\* the workaround of RadioSetTxConfig: bit 2 of 0x0889 is cleared for the
\* LoRa modem with the stored bandwidth LORA_BW_500 and set otherwise
TxModulationWorkaround(modem, bandwidth) ==
    [Registers EXCEPT !.TxModulation =
        IF modem = MODEM_LORA /\ bandwidth = RadioLoRaBandwidths_t.LORA_BW_500
        THEN "cleared" ELSE "set"]

\* RadioSetRxConfig(modem, bandwidth, datarate, ..., preambleLen, symbTimeout,
\* fixLen, payloadLen, ..., rxContinuous): the parameters it stores
RxConfig(a) ==
    LET symbTimeout == IF a.rxContinuous = TRUE THEN 0 ELSE a.symbTimeout
        max == IF a.fixLen = TRUE THEN a.payloadLen ELSE 255
    IN  /\ MaxPayloadLength' = max
        /\ IF a.modem = MODEM_FSK
           THEN /\ SX126x' =
                     [SX126x EXCEPT
                        !.ModulationParams.PacketType = PACKET_TYPE_GFSK,
                        !.ModulationParams.Gfsk =
                            [BitRate |-> a.datarate,
                             Bandwidth |-> RadioGetFskBandwidthRegValue(a.bandwidth)],
                        !.PacketParams.PacketType = PACKET_TYPE_GFSK,
                        !.PacketParams.Gfsk =
                            [PreambleLength |-> Shl3(a.preambleLen),
                             SyncWordLength |-> 24,
                             HeaderType |-> a.fixLen,
                             PayloadLength |-> max,
                             CrcLength |-> GfskCrcLength(a.crcOn)]]
                /\ RxTimeout' = (symbTimeout * 8000) \div a.datarate
                /\ UNCHANGED Registers
           ELSE /\ SX126x' =
                     [SX126x EXCEPT
                        !.ModulationParams.PacketType = PACKET_TYPE_LORA,
                        !.ModulationParams.LoRa =
                            WithCodingRate(LoRaModulation(a.bandwidth, a.datarate),
                                           a.coderate),
                        !.PacketParams.PacketType = PACKET_TYPE_LORA,
                        !.PacketParams.LoRa =
                            [PreambleLength |-> LoRaPreambleLength(a.datarate, a.preambleLen),
                             HeaderType |-> a.fixLen,
                             PayloadLength |-> max,
                             CrcMode |-> a.crcOn,
                             InvertIQ |-> a.iqInverted]]
                /\ Registers' = IqPolarityWorkaround(a.iqInverted)
                /\ RxTimeout' = RXTIMEOUT_LORA_MAX
        /\ UNCHANGED <<TxTimeout, force_low_dr_opt, TimerValue>>

\* RadioSetTxConfig(modem, power, fdev, bandwidth, datarate, ..., preambleLen,
\* fixLen, ..., timeout): the parameters it stores
TxConfig(a) ==
    /\ IF a.modem = MODEM_FSK
       THEN SX126x' =
               [SX126x EXCEPT
                  !.ModulationParams.PacketType = PACKET_TYPE_GFSK,
                  !.ModulationParams.Gfsk =
                      [BitRate |-> a.datarate,
                       Bandwidth |-> RadioGetFskBandwidthRegValue(a.bandwidth)],
                  !.PacketParams.PacketType = PACKET_TYPE_GFSK,
                  !.PacketParams.Gfsk.PreambleLength = Shl3(a.preambleLen),
                  !.PacketParams.Gfsk.SyncWordLength = 24,
                  !.PacketParams.Gfsk.HeaderType = a.fixLen,
                  !.PacketParams.Gfsk.CrcLength = GfskCrcLength(a.crcOn)]
       ELSE SX126x' =
               [SX126x EXCEPT
                  !.ModulationParams.PacketType = PACKET_TYPE_LORA,
                  !.ModulationParams.LoRa =
                      WithCodingRate(LoRaModulation(a.bandwidth, a.datarate), a.coderate),
                  !.PacketParams.PacketType = PACKET_TYPE_LORA,
                  !.PacketParams.LoRa =
                      [PreambleLength |-> LoRaPreambleLength(a.datarate, a.preambleLen),
                       HeaderType |-> a.fixLen,
                       PayloadLength |-> MaxPayloadLength,
                       CrcMode |-> a.crcOn,
                       InvertIQ |-> a.iqInverted]]
    /\ Registers' = TxModulationWorkaround(a.modem, SX126x'.ModulationParams.LoRa.Bandwidth)
    /\ TxTimeout' = a.timeout
    /\ UNCHANGED <<MaxPayloadLength, RxTimeout, force_low_dr_opt, TimerValue>>

\* RadioSend with the size always written into the LoRa packet parameters
SendParams_LoRaOnly(size) ==
    /\ SX126x' = [SX126x EXCEPT !.PacketParams.LoRa.PayloadLength = size]
    /\ TimerValue' = [TimerValue EXCEPT !.Tx = TxTimeout]
    /\ Invoked("RadioSend", [size |-> size],
               << [cmd |-> "SX126xSetPacketParams", arg |-> SX126x'.PacketParams],
                  [cmd |-> "SX126xSendPayload", arg |-> size],
                  [cmd |-> "TimerStart", arg |-> "TxTimeoutTimer"] >>)
    /\ UNCHANGED <<MaxPayloadLength, TxTimeout, RxTimeout, force_low_dr_opt, Registers>>

\* RadioSend(buffer, size): the payload length goes into the packet
\* parameters of the chip's packet type, the parameters are pushed, the
\* payload is sent and the TX timer is started with TxTimeout
SendParams(size) ==
    /\ SX126x' = IF SX126xGetPacketType = PACKET_TYPE_LORA
                 THEN [SX126x EXCEPT !.PacketParams.LoRa.PayloadLength = size]
                 ELSE [SX126x EXCEPT !.PacketParams.Gfsk.PayloadLength = size]
    /\ TimerValue' = [TimerValue EXCEPT !.Tx = TxTimeout]
    /\ Invoked("RadioSend", [size |-> size],
               << [cmd |-> "SX126xSetPacketParams", arg |-> SX126x'.PacketParams],
                  [cmd |-> "SX126xSendPayload", arg |-> size],
                  [cmd |-> "TimerStart", arg |-> "TxTimeoutTimer"] >>)
    /\ UNCHANGED <<MaxPayloadLength, TxTimeout, RxTimeout, force_low_dr_opt, Registers>>

\* RadioRx(timeout): the timer value and the timeout the chip is started with
RxParams(timeout) ==
    /\ TimerValue' = IF timeout # 0 THEN [TimerValue EXCEPT !.Rx = timeout] ELSE TimerValue
    /\ Invoked("RadioRx", [timeout |-> timeout],
               << [cmd |-> "SX126xSetRx",
                   arg |-> IF RxContinuous = TRUE THEN RX_CONTINUOUS ELSE Shl6(RxTimeout)] >>)
    /\ UNCHANGED <<MaxPayloadLength, TxTimeout, RxTimeout, force_low_dr_opt, SX126x,
                   Registers>>

\* RadioRxBoosted(timeout)
RxBoostedParams(timeout) ==
    /\ TimerValue' = IF RxContinuous = TRUE /\ timeout # 0
                     THEN [TimerValue EXCEPT !.Rx = timeout] ELSE TimerValue
    /\ Invoked("RadioRxBoosted", [timeout |-> timeout],
               << [cmd |-> "SX126xSetRxBoosted",
                   arg |-> IF RxContinuous = TRUE THEN RX_CONTINUOUS ELSE Shl6(RxTimeout)] >>)
    /\ UNCHANGED <<MaxPayloadLength, TxTimeout, RxTimeout, force_low_dr_opt, SX126x,
                   Registers>>

\* RadioEnforceLowDRopt(enforce)
RadioEnforceLowDRopt(enforce) ==
    /\ force_low_dr_opt' = (enforce = TRUE)
    /\ Invoked("RadioEnforceLowDRopt", [enforce |-> enforce], <<>>)
    /\ UNCHANGED <<MaxPayloadLength, TxTimeout, RxTimeout, SX126x, TimerValue,
                   Registers>>

\* a call that leaves the parameters alone
NoParams(op, args) ==
    /\ Invoked(op, args, <<>>)
    /\ UNCHANGED pktVars

-----------------------------------------------------------------------------
(* SpecRxTx: the calls that start a reception or a transmission, with their  *)
(* parameters                                                                *)

\* the arguments of RadioSetRxConfig tried for a modem
RxConfigArgs(modem, rxContinuous) ==
    [modem |-> modem,
     bandwidth |-> IF modem = MODEM_FSK THEN 50000 ELSE 0,
     datarate |-> IF modem = MODEM_FSK THEN 50000 ELSE 7,
     coderate |-> 1, preambleLen |-> 8, symbTimeout |-> 5, fixLen |-> FALSE,
     payloadLen |-> 0, crcOn |-> TRUE, iqInverted |-> FALSE,
     rxContinuous |-> rxContinuous]

\* the arguments of RadioSetTxConfig tried for a modem
TxConfigArgs(modem, timeout) ==
    [modem |-> modem,
     bandwidth |-> 0,
     datarate |-> IF modem = MODEM_FSK THEN 50000 ELSE 7,
     coderate |-> 1, preambleLen |-> 8, fixLen |-> FALSE, crcOn |-> TRUE,
     iqInverted |-> FALSE, timeout |-> timeout]

NextRxTx ==
    \/ \E m \in Modems, c \in BOOLEAN :
          /\ RadioSetRxConfig(m, c)
          /\ RxConfig(RxConfigArgs(m, c))
          /\ Invoked("RadioSetRxConfig", RxConfigArgs(m, c), <<>>)
          /\ UNCHANGED REG_LR_SYNCWORD
    \/ \E m \in Modems, timeout \in {3000, 4000} :
          /\ RadioSetTxConfig(m)
          /\ TxConfig(TxConfigArgs(m, timeout))
          /\ Invoked("RadioSetTxConfig", TxConfigArgs(m, timeout), <<>>)
          /\ UNCHANGED REG_LR_SYNCWORD
    \/ \E m \in Modems :
          RadioSetModem(m) /\ NoParams("RadioSetModem", [modem |-> m])
              /\ UNCHANGED REG_LR_SYNCWORD
    \/ \E size \in {1, 255} :
          RadioSend /\ SendParams(size) /\ UNCHANGED REG_LR_SYNCWORD
    \/ \E timeout \in {0, 3000} :
          RadioRx(timeout) /\ RxParams(timeout) /\ UNCHANGED REG_LR_SYNCWORD
    \/ \E timeout \in {0, 3000} :
          RadioRxBoosted(timeout) /\ RxBoostedParams(timeout) /\ UNCHANGED REG_LR_SYNCWORD
    \/ RadioOnRxTimeoutIrq /\ NoParams("RadioOnRxTimeoutIrq", <<>>)
          /\ UNCHANGED REG_LR_SYNCWORD
    \/ RadioOnTxTimeoutIrq /\ NoParams("RadioOnTxTimeoutIrq", <<>>)
          /\ UNCHANGED REG_LR_SYNCWORD

SpecRxTx == Init /\ [][NextRxTx]_vars

-----------------------------------------------------------------------------
(* SpecCs: the channel-free check among the calls that change the radio      *)
(* state                                                                     *)

RF_IDLE == "RF_IDLE"
RF_RX_RUNNING == "RF_RX_RUNNING"
RF_TX_RUNNING == "RF_TX_RUNNING"
RF_CAD == "RF_CAD"

\* RadioGetStatus()
RadioGetStatus ==
    CASE OperatingMode = MODE_TX -> RF_TX_RUNNING
      [] OperatingMode = MODE_RX -> RF_RX_RUNNING
      [] OperatingMode = MODE_CAD -> RF_CAD
      [] OTHER -> RF_IDLE

\* at most this many RSSI samples fit in the sensing window
MaxSamples == 2

\* the RSSI values RadioRssi returns, and the thresholds tried
RssiValues == {-100, -90, -80}
RssiThresholds == {-90}

\* the samples RadioRssi would return during a sensing window
SenseWindows == UNION { [1..n -> RssiValues] : n \in 0..MaxSamples }

\* a call op(args) that gave the commands cmds and returned ret
Returned(op, args, cmds, ret) ==
    /\ calls' = << [op |-> op, args |-> args, cmds |-> cmds, ret |-> ret] >>
    /\ UNCHANGED txConcl

RECURSIVE CarrierSense(_, _, _)

\* the while loop of RadioIsChannelFree from the i-th sample of the window:
\* the status it ends with and the number of samples it has read
CarrierSense(samples, rssiThresh, i) ==
    IF i <= Len(samples)
    THEN IF samples[i] > rssiThresh
         THEN [status |-> FALSE, reads |-> i]
         ELSE CarrierSense(samples, rssiThresh, i + 1)
    ELSE [status |-> TRUE, reads |-> Len(samples)]

\* the commands of a channel-free check that read the RSSI reads times
SenseCmds(reads) ==
    <<"RadioSetModem", "RadioSetChannel", "RadioRx">>
        \o [k \in 1..reads |-> "RadioRssi"] \o <<"RadioSleep">>

\* RadioIsChannelFree without the RadioSleep() before the return
RadioIsChannelFree_NoSleep(modem, rssiThresh, samples) ==
    LET sense == CarrierSense(samples, rssiThresh, 1)
    IN  /\ SetCfg(SetModem(Cfg, modem))
        /\ REG_LR_SYNCWORD' = SetModem(Cfg, modem).REG_LR_SYNCWORD
        /\ chipMode' = IF RxContinuous = TRUE THEN "RXC" ELSE "RX"
        /\ OperatingMode' = MODE_RX
        /\ rxConcl' = 0
        /\ Returned("RadioIsChannelFree",
                    [modem |-> modem, rssiThresh |-> rssiThresh, samples |-> samples],
                    SenseCmds(sense.reads), sense.status)
        /\ pass' = NoPass
        /\ UNCHANGED <<lsnVars, RxContinuous, timerVars, flagVars, irqStatus,
                       dio1, txDoneSeen, irqVars, pktVars>>

\* RadioIsChannelFree(modem, freq, rssiThresh, maxCarrierSenseTime), with the
\* samples RadioRssi returns while the window lasts: false at once when the
\* radio is not idle; otherwise RadioSetModem, RadioSetChannel, RadioRx(0),
\* the sensing loop and RadioSleep
RadioIsChannelFree(modem, rssiThresh, samples) ==
    LET sense == CarrierSense(samples, rssiThresh, 1)
        args == [modem |-> modem, rssiThresh |-> rssiThresh, samples |-> samples]
    IN  IF RadioGetStatus # RF_IDLE
        THEN /\ Returned("RadioIsChannelFree", args, <<>>, FALSE)
             /\ pass' = NoPass
             /\ UNCHANGED <<lsnVars, cfgVars, REG_LR_SYNCWORD, RxContinuous,
                            OperatingMode, chipMode, timerVars, flagVars,
                            irqStatus, dio1, obsVars, irqVars, pktVars>>
        ELSE /\ SetCfg(SetModem(Cfg, modem))
             /\ REG_LR_SYNCWORD' = SetModem(Cfg, modem).REG_LR_SYNCWORD
             /\ chipMode' = "STDBY"
             /\ OperatingMode' = MODE_SLEEP
             /\ rxConcl' = 0
             /\ Returned("RadioIsChannelFree", args, SenseCmds(sense.reads),
                         sense.status)
             /\ pass' = NoPass
             /\ UNCHANGED <<lsnVars, RxContinuous, timerVars, flagVars,
                            irqStatus, dio1, txDoneSeen, irqVars, pktVars>>

NextCs ==
    \/ \E m \in Modems, rssiThresh \in RssiThresholds, samples \in SenseWindows :
          RadioIsChannelFree(m, rssiThresh, samples)
    \/ \E m \in Modems, c \in BOOLEAN :
          /\ RadioSetRxConfig(m, c)
          /\ RxConfig(RxConfigArgs(m, c))
          /\ Invoked("RadioSetRxConfig", RxConfigArgs(m, c), <<>>)
          /\ REG_LR_SYNCWORD' = SetModem(Cfg, m).REG_LR_SYNCWORD
    \/ RadioSend /\ SendParams(1) /\ UNCHANGED REG_LR_SYNCWORD
    \/ \E timeout \in {0, 3000} :
          RadioRx(timeout) /\ RxParams(timeout) /\ UNCHANGED REG_LR_SYNCWORD
    \/ RadioStartCad /\ NoParams("RadioStartCad", <<>>)
          /\ UNCHANGED REG_LR_SYNCWORD
    \/ RadioSetRxDutyCycle /\ NoParams("RadioSetRxDutyCycle", <<>>)
          /\ UNCHANGED REG_LR_SYNCWORD
    \/ RadioStandby /\ NoParams("RadioStandby", <<>>)
          /\ UNCHANGED REG_LR_SYNCWORD
    \/ RadioSleep /\ NoParams("RadioSleep", <<>>)
          /\ UNCHANGED REG_LR_SYNCWORD

SpecCs == Init /\ [][NextCs]_vars

-----------------------------------------------------------------------------
(* SpecFsk: the FSK configuration calls over the bandwidths of the table,    *)
(* their neighbours and the ends of the range                                *)

\* the FSK bandwidths requested: 0, every bandwidth of the table, the values
\* just below and just above each, and one beyond the table
FskRequests ==
    {0, 600000} \cup
    UNION { {FskBandwidths[k].bandwidth - 1, FskBandwidths[k].bandwidth,
             FskBandwidths[k].bandwidth + 1} : k \in 1..Len(FskBandwidths) }

NextFsk ==
    \/ \E b \in FskRequests :
          LET a == [RxConfigArgs(MODEM_FSK, FALSE) EXCEPT !.bandwidth = b]
          IN  /\ RadioSetRxConfig(MODEM_FSK, FALSE)
              /\ RxConfig(a)
              /\ Invoked("RadioSetRxConfig", a, <<>>)
              /\ REG_LR_SYNCWORD' = SetModem(Cfg, MODEM_FSK).REG_LR_SYNCWORD
    \/ \E b \in FskRequests :
          LET a == [TxConfigArgs(MODEM_FSK, 3000) EXCEPT !.bandwidth = b]
          IN  /\ RadioSetTxConfig(MODEM_FSK)
              /\ TxConfig(a)
              /\ Invoked("RadioSetTxConfig", a, <<>>)
              /\ REG_LR_SYNCWORD' = SetModem(Cfg, MODEM_FSK).REG_LR_SYNCWORD

SpecFsk == Init /\ [][NextFsk]_vars

-----------------------------------------------------------------------------
(* SpecLoRa: the LoRa configuration calls over bandwidths, spreading factors *)
(* and preamble lengths, with the low data rate override                     *)

\* the bandwidth indexes (125, 250 and 500 kHz), spreading factors and
\* preamble lengths requested
LoRaBandwidths == {0, 1, 2}
LoRaDatarates == {5, 6, 7, 10, 11, 12}
LoRaPreambles == {8, 11, 12, 13}

NextLoRa ==
    \/ \E bw \in LoRaBandwidths, sf \in LoRaDatarates, len \in LoRaPreambles :
          LET a == [RxConfigArgs(MODEM_LORA, FALSE) EXCEPT
                       !.bandwidth = bw, !.datarate = sf, !.preambleLen = len]
          IN  /\ RadioSetRxConfig(MODEM_LORA, FALSE)
              /\ RxConfig(a)
              /\ Invoked("RadioSetRxConfig", a, <<>>)
              /\ REG_LR_SYNCWORD' = SetModem(Cfg, MODEM_LORA).REG_LR_SYNCWORD
    \/ \E bw \in LoRaBandwidths, sf \in LoRaDatarates, len \in LoRaPreambles :
          LET a == [TxConfigArgs(MODEM_LORA, 3000) EXCEPT
                       !.bandwidth = bw, !.datarate = sf, !.preambleLen = len]
          IN  /\ RadioSetTxConfig(MODEM_LORA)
              /\ TxConfig(a)
              /\ Invoked("RadioSetTxConfig", a, <<>>)
              /\ REG_LR_SYNCWORD' = SetModem(Cfg, MODEM_LORA).REG_LR_SYNCWORD
    \/ \E enforce \in BOOLEAN :
          /\ RadioEnforceLowDRopt(enforce)
          /\ pass' = NoPass
          /\ UNCHANGED <<lsnVars, cfgVars, REG_LR_SYNCWORD, RxContinuous,
                         OperatingMode, chipMode, timerVars, flagVars,
                         irqStatus, dio1, obsVars, irqVars>>

SpecLoRa == Init /\ [][NextLoRa]_vars

-----------------------------------------------------------------------------
(* SpecErrata: the configuration calls of both modems over the IQ setups and *)
(* the bandwidths the workarounds look at                                    *)

\* the bandwidth indexes requested: 125 kHz and 500 kHz
ErrataBandwidths == {0, 2}

NextErrata ==
    \/ \E m \in Modems, bw \in ErrataBandwidths, iq \in BOOLEAN :
          LET a == [RxConfigArgs(m, FALSE) EXCEPT
                       !.bandwidth = IF m = MODEM_FSK THEN @ ELSE bw,
                       !.iqInverted = iq]
          IN  /\ RadioSetRxConfig(m, FALSE)
              /\ RxConfig(a)
              /\ Invoked("RadioSetRxConfig", a, <<>>)
              /\ REG_LR_SYNCWORD' = SetModem(Cfg, m).REG_LR_SYNCWORD
    \/ \E m \in Modems, bw \in ErrataBandwidths, iq \in BOOLEAN :
          LET a == [TxConfigArgs(m, 3000) EXCEPT
                       !.bandwidth = IF m = MODEM_FSK THEN 50000 ELSE bw,
                       !.iqInverted = iq]
          IN  /\ RadioSetTxConfig(m)
              /\ TxConfig(a)
              /\ Invoked("RadioSetTxConfig", a, <<>>)
              /\ REG_LR_SYNCWORD' = SetModem(Cfg, m).REG_LR_SYNCWORD

SpecErrata == Init /\ [][NextErrata]_vars

-----------------------------------------------------------------------------
(* RadioTimeOnAir. Times are in microseconds where the code computes in      *)
(* double milliseconds: every symbol time of the table is a whole number of  *)
(* microseconds, so the arithmetic is exact.                                  *)

\* RadioLoRaSymbTime[3][6], in microseconds: rows 125, 250 and 500 kHz,
\* columns SF12 down to SF7
RadioLoRaSymbTime ==
    << <<32768, 16384, 8192, 4096, 2048, 1024>>,
       <<16384, 8192, 4096, 2048, 1024, 512>>,
       <<8192, 4096, 2048, 1024, 512, 256>> >>

\* what a read outside the table may return: the memory next to the table
\* read as a double, negative, zero or positive
OutsideSymbTime == {-1024, 0, 16384}

\* the indexes RadioTimeOnAir reads the table at: [Bandwidth - 4] and
\* [12 - SpreadingFactor]
SymbTimeIndex ==
    <<SX126x.ModulationParams.LoRa.Bandwidth - 4,
      12 - SX126x.ModulationParams.LoRa.SpreadingFactor>>

InTable(index) == index[1] \in 0..2 /\ index[2] \in 0..5

\* the symbol time read, outside being what a read outside the table returns
SymbTime(outside) ==
    IF InTable(SymbTimeIndex)
    THEN RadioLoRaSymbTime[SymbTimeIndex[1] + 1][SymbTimeIndex[2] + 1]
    ELSE outside

\* ceil(a / (double) b) for b > 0
CeilDiv(a, b) == -((-a) \div b)

\* a double converted to uint32_t: a negative value gives 0 with the
\* conversion routines of the supported boards
ToUint32(x) == IF x < 0 THEN 0 ELSE x

\* the payload symbols with 8 * pktLen computed in 8 bits
LoRaPayloadSymbols_8Bits(pktLen) ==
    LET mod == SX126x.ModulationParams.LoRa
        pkt == SX126x.PacketParams.LoRa
    IN  CeilDiv(((8 * pktLen) % 256) - 4 * mod.SpreadingFactor + 28
                    + 16 * (IF pkt.CrcMode = TRUE THEN 1 ELSE 0)
                    - (IF pkt.HeaderType = TRUE THEN 20 ELSE 0),
                4 * (mod.SpreadingFactor
                        - (IF mod.LowDatarateOptimize > 0 THEN 2 ELSE 0)))
            * ((mod.CodingRate % 4) + 4)

\* tmp of RadioTimeOnAir: the symbols of the payload
LoRaPayloadSymbols(pktLen) ==
    LET mod == SX126x.ModulationParams.LoRa
        pkt == SX126x.PacketParams.LoRa
    IN  CeilDiv(8 * pktLen - 4 * mod.SpreadingFactor + 28
                    + 16 * (IF pkt.CrcMode = TRUE THEN 1 ELSE 0)
                    - (IF pkt.HeaderType = TRUE THEN 20 ELSE 0),
                4 * (mod.SpreadingFactor
                        - (IF mod.LowDatarateOptimize > 0 THEN 2 ELSE 0)))
            * ((mod.CodingRate % 4) + 4)

\* RadioTimeOnAir(MODEM_LORA, pktLen): (PreambleLength + 4.25) * ts and
\* (8 + max(tmp, 0)) * ts added, then floor(tOnAir + 0.999)
TimeOnAirLoRa(pktLen, outside) ==
    LET ts == SymbTime(outside)
        tmp == LoRaPayloadSymbols(pktLen)
        nPayload == 8 + (IF tmp > 0 THEN tmp ELSE 0)
        quarters == 4 * SX126x.PacketParams.LoRa.PreambleLength + 17 + 4 * nPayload
        tOnAir == quarters * (ts \div 4)
    IN  ToUint32((tOnAir + 999) \div 1000)

\* rint(n / d) for n >= 0 and d > 0: to the nearest, a tie to the even one
Rint(n, d) ==
    LET q == n \div d
        r == n % d
    IN  IF 2 * r < d THEN q
        ELSE IF 2 * r > d THEN q + 1
        ELSE IF q % 2 = 0 THEN q ELSE q + 1

\* crcLength of RadioTimeOnAir
GfskCrcBytes ==
    CASE SX126x.PacketParams.Gfsk.CrcLength = RADIO_CRC_2_BYTES_CCIT -> 2
      [] SX126x.PacketParams.Gfsk.CrcLength = RADIO_CRC_1_BYTES -> 1
      [] OTHER -> 0

\* RadioTimeOnAir(MODEM_FSK, pktLen)
TimeOnAirFsk(pktLen) ==
    LET pkt == SX126x.PacketParams.Gfsk
    IN  Rint(1000 * 8 * (pkt.PreambleLength + (pkt.SyncWordLength \div 8)
                            + (IF pkt.HeaderType = TRUE THEN 0 ELSE 1)
                            + pktLen + GfskCrcBytes),
             SX126x.ModulationParams.Gfsk.BitRate)

TimeOnAir(modem, pktLen, outside) ==
    IF modem = MODEM_FSK THEN TimeOnAirFsk(pktLen) ELSE TimeOnAirLoRa(pktLen, outside)

\* the modem's parameters were stored: the divisions of RadioTimeOnAir are
\* not by zero
Stored(modem) ==
    IF modem = MODEM_FSK
    THEN SX126x.ModulationParams.Gfsk.BitRate # 0
    ELSE SX126x.ModulationParams.LoRa.SpreadingFactor # 0

\* RadioTimeOnAir(modem, pktLen), called once the modem's parameters are
\* stored; the call records the indexes it read the table at
RadioTimeOnAir(modem, pktLen) ==
    /\ Stored(modem)
    /\ \E outside \in OutsideSymbTime :
          Returned("RadioTimeOnAir", [modem |-> modem, pktLen |-> pktLen],
                   IF modem = MODEM_LORA THEN <<SymbTimeIndex>> ELSE <<>>,
                   TimeOnAir(modem, pktLen, outside))
    /\ pass' = NoPass
    /\ UNCHANGED <<lsnVars, cfgVars, REG_LR_SYNCWORD, RxContinuous, OperatingMode,
                   chipMode, timerVars, flagVars, irqStatus, dio1, obsVars,
                   irqVars, pktVars>>

-----------------------------------------------------------------------------
(* SpecToa: the time on air of the parameters the configuration calls store  *)

\* the bandwidth indexes (125 and 62.5 kHz), spreading factors, coding
\* rates, bit rates and packet lengths tried; the CRC is on with the explicit
\* (variable length) header and off with the implicit one
ToaBandwidths == {0, 3}
ToaDatarates == {5, 7, 12}
ToaCoderates == {1, 4}
ToaBitrates == {1200}
PktLens == {1, 255}

NextToa ==
    \/ \E bw \in ToaBandwidths, sf \in ToaDatarates, cr \in ToaCoderates,
          fixLen \in BOOLEAN :
          LET a == [RxConfigArgs(MODEM_LORA, FALSE) EXCEPT
                       !.bandwidth = bw, !.datarate = sf, !.coderate = cr,
                       !.crcOn = ~fixLen, !.fixLen = fixLen, !.payloadLen = 50]
          IN  /\ RadioSetRxConfig(MODEM_LORA, FALSE)
              /\ RxConfig(a)
              /\ Invoked("RadioSetRxConfig", a, <<>>)
              /\ REG_LR_SYNCWORD' = SetModem(Cfg, MODEM_LORA).REG_LR_SYNCWORD
    \/ \E bw \in ToaBandwidths, sf \in ToaDatarates, cr \in ToaCoderates,
          fixLen \in BOOLEAN :
          LET a == [TxConfigArgs(MODEM_LORA, 3000) EXCEPT
                       !.bandwidth = bw, !.datarate = sf, !.coderate = cr,
                       !.crcOn = ~fixLen, !.fixLen = fixLen]
          IN  /\ RadioSetTxConfig(MODEM_LORA)
              /\ TxConfig(a)
              /\ Invoked("RadioSetTxConfig", a, <<>>)
              /\ REG_LR_SYNCWORD' = SetModem(Cfg, MODEM_LORA).REG_LR_SYNCWORD
    \/ \E br \in ToaBitrates, fixLen \in BOOLEAN :
          LET a == [TxConfigArgs(MODEM_FSK, 3000) EXCEPT
                       !.bandwidth = 50000, !.datarate = br,
                       !.crcOn = ~fixLen, !.fixLen = fixLen]
          IN  /\ RadioSetTxConfig(MODEM_FSK)
              /\ TxConfig(a)
              /\ Invoked("RadioSetTxConfig", a, <<>>)
              /\ REG_LR_SYNCWORD' = SetModem(Cfg, MODEM_FSK).REG_LR_SYNCWORD
    \/ \E m \in Modems, pktLen \in PktLens : RadioTimeOnAir(m, pktLen)

SpecToa == Init /\ [][NextToa]_vars

-----------------------------------------------------------------------------
(* SpecTx: the transmissions, receptions and channel activity detections     *)
(* with their interrupts, timers and passes, and the count of the concluding *)
(* events the _events set has received for the last RadioSend                *)

\* the step counts what the pass it ends with delivered to the _events set
TxConcluded ==
    /\ txConcl' = IF pass'.src = "none" THEN txConcl
                  ELSE Min(2, txConcl + CountCalls(pass'.events, "_events", TxConcluding))
    /\ UNCHANGED <<REG_LR_SYNCWORD, pktVars, calls>>

NextTx ==
    \/ \E e \in BOOLEAN : setLoRaEvents(e) /\ TxConcluded
    \/ \E b \in BOOLEAN : RadioSetPublicNetwork(b) /\ TxConcluded
    \/ RadioSend /\ txConcl' = 0 /\ UNCHANGED <<REG_LR_SYNCWORD, pktVars, calls>>
    \/ \E c \in BOOLEAN : RadioSetRxConfig(MODEM_LORA, c) /\ TxConcluded
    \/ RadioRx(1) /\ TxConcluded
    \/ RadioSetRxDutyCycle /\ TxConcluded
    \/ RadioStartCad /\ TxConcluded
    \/ RadioStandby /\ TxConcluded
    \/ ChipTxDone /\ TxConcluded
    \/ \E c \in BOOLEAN : ChipRxDone(c) /\ TxConcluded
    \/ ChipTimeout /\ TxConcluded
    \/ ChipHeaderError /\ TxConcluded
    \/ ChipPreambleDetected /\ TxConcluded
    \/ ChipCadDone /\ TxConcluded
    \/ RadioOnDioIrq /\ TxConcluded
    \/ RadioBgIrqProcess /\ TxConcluded
    \/ RadioOnTxTimeoutIrq /\ TxConcluded
    \/ RadioOnRxTimeoutIrq /\ TxConcluded

SpecTx == Init /\ [][NextTx]_vars

-----------------------------------------------------------------------------
(* Properties of the reconciliation pass *)

Ran == pass.src # "none"

\* the calls of callback name with cause type that the set received in the last pass
Calls(set, name, type) ==
    Cardinality({i \in DOMAIN pass.events :
                    /\ pass.events[i].set = set
                    /\ pass.events[i].name = name
                    /\ pass.events[i].type = type})

Sets == {"RadioEvents", "_events"}

\* the set is registered and, for RadioEvents, the network mode is public
Applicable(set) ==
    IF set = "_events" THEN _events ELSE RadioEvents /\ RadioPublicNetwork.Current

\* C1: a pass whose IRQ status carries RX-done and CRC-error and no
\* header-error gives every registered and applicable listener set exactly one
\* RxError and gives no listener an RxDone; the payload is read from the chip.
C1_CrcErrorGivesOneRxError ==
    (Ran /\ {IRQ_RX_DONE, IRQ_CRC_ERROR} \subseteq pass.irqRegs
         /\ IRQ_HEADER_ERROR \notin pass.irqRegs)
    => /\ \A set \in Sets :
            /\ Calls(set, "RxError", NoType) = (IF Applicable(set) THEN 1 ELSE 0)
            /\ Calls(set, "RxDone", NoType) = 0
       /\ pass.getPayload = 1

C1_Witness ==
    /\ Ran
    /\ {IRQ_RX_DONE, IRQ_CRC_ERROR} \subseteq pass.irqRegs
    /\ IRQ_HEADER_ERROR \notin pass.irqRegs
    /\ RadioEvents /\ _events /\ RadioPublicNetwork.Current
    /\ Calls("RadioEvents", "RxError", NoType) = 1
    /\ Calls("_events", "RxError", NoType) = 1
    /\ pass.getPayload = 1

\* C2: once a pass has delivered TxDone for a RadioSend, no TxTimeout of either
\* cause is delivered for that send, in that pass or in a later one; the pass
\* that handles TX-done leaves the TX timer stopped and TimerTxTimeout false.
C2_NoTxTimeoutAfterTxDone ==
    [][pass'.src # "none" =>
         /\ \A i \in DOMAIN pass'.events :
               pass'.events[i].name = "TxTimeout" =>
                   /\ ~txDoneSeen
                   /\ \A j \in 1..(i - 1) : pass'.events[j].name # "TxDone"
         /\ IRQ_TX_DONE \in pass'.irqRegs =>
               (TxTimeoutTimer' = FALSE /\ TimerTxTimeout' = FALSE)]_vars

C2_Witness ==
    /\ Ran
    /\ pass.src = "RadioOnTxTimeoutIrq"
    /\ pass.TimerTxIn
    /\ IRQ_TX_DONE \in pass.irqRegs
    /\ Calls("_events", "TxDone", NoType) = 1
    /\ Calls("_events", "TxTimeout", TIMER_TYPE) = 0
    /\ TimerTxTimeout = FALSE

\* C3: for every receive started by RadioRx or RadioRxBoosted the _events set
\* receives at most one of RxDone, RxError, RxTimeout before the next receive
\* is started.
C3_AtMostOneRxConclusion == rxConcl <= 1

\* the pass went through the branch that logs tag
Logged(tag) == \E i \in DOMAIN pass.log : pass.log[i] = tag

\* a pass that handled an interrupt-sourced conclusion of the direction
RxIrqHandled == Logged("IRQ_RX_DONE") \/ Logged("IRQ_RX_TIMEOUT")
TxIrqHandled == Logged("IRQ_TX_DONE") \/ Logged("IRQ_TX_TIMEOUT")

\* C4: in one pass a latched timer-fired flag raises a timer-sourced timeout
\* only if no interrupt-sourced conclusion of the same direction (RX-done or
\* interrupt RX-timeout; TX-done or interrupt TX-timeout) was handled in that
\* pass; otherwise the flag is cleared without an event.
C4_TimerTimeoutOnlyIfNotHandled ==
    Ran =>
       /\ RxIrqHandled => \A set \in Sets : Calls(set, "RxTimeout", TIMER_TYPE) = 0
       /\ TxIrqHandled => \A set \in Sets : Calls(set, "TxTimeout", TIMER_TYPE) = 0
       /\ (RxIrqHandled /\ pass.TimerRxIn) => ~Logged("TimerRxTimeout")
       /\ (TxIrqHandled /\ pass.TimerTxIn) => ~Logged("TimerTxTimeout")
       /\ TimerRxTimeout = FALSE
       /\ TimerTxTimeout = FALSE

C4_Witness ==
    /\ Ran
    /\ pass.TimerRxIn
    /\ IRQ_RX_DONE \in pass.irqRegs
    /\ _events
    /\ Calls("_events", "RxDone", NoType) = 1
    /\ Calls("_events", "RxTimeout", TIMER_TYPE) = 0
    /\ TimerRxTimeout = FALSE

\* C5: after a pass that handled RX-done, RX-timeout or header-error the RX
\* timer is stopped, and after TX-done or TX-timeout the TX timer is stopped,
\* in public and in private network mode.
C5_ConcludingBranchStopsTimer ==
    Ran =>
       /\ (RxIrqHandled \/ Logged("IRQ_HEADER_ERROR") \/ Logged("TimerRxTimeout"))
             => RxTimeoutTimer = FALSE
       /\ (TxIrqHandled \/ Logged("TimerTxTimeout")) => TxTimeoutTimer = FALSE

\* C6: a listener called for TxDone or TxTimeout never observes the tracked
\* mode TX, and a listener called for RxDone, RxError or RxTimeout of a
\* single-mode reception never observes the tracked mode RX: the mode was
\* demoted before the call.
C6_ModeDemotedBeforeListener ==
    Ran => \A i \in DOMAIN pass.events :
              /\ pass.events[i].name \in TxConcluding => pass.events[i].mode # MODE_TX
              /\ (pass.events[i].name \in RxConcluding /\ RxContinuous = FALSE)
                    => pass.events[i].mode # MODE_RX

\* C7 as stated: after a pass that handles RX-done the tracked mode is still RX
\* when RxContinuous is true and standby-RC when it is false.
C7_ModeAfterRxDone ==
    (Ran /\ IRQ_RX_DONE \in pass.irqRegs /\ pass.modeIn = MODE_RX)
    => pass.modeOut = (IF RxContinuous THEN MODE_RX ELSE MODE_STDBY_RC)

\* C7 amended: after a pass that handles RX-done the tracked mode is standby-RC
\* when RxContinuous is false; when RxContinuous is true and the IRQ status
\* carries none of TX-done, CAD-done and RX/TX-timeout, the mode is the one the
\* pass was entered with (still RX if it was RX).
C7_ModeAfterRxDoneAlone ==
    (Ran /\ IRQ_RX_DONE \in pass.irqRegs)
    => IF RxContinuous
       THEN pass.irqRegs \cap {IRQ_TX_DONE, IRQ_CAD_DONE, IRQ_RX_TX_TIMEOUT} = {}
               => pass.modeOut = pass.modeIn
       ELSE pass.modeOut = MODE_STDBY_RC

C7_Witness ==
    /\ Ran
    /\ IRQ_RX_DONE \in pass.irqRegs
    /\ RxContinuous
    /\ pass.modeIn = MODE_RX
    /\ pass.modeOut = MODE_RX

\* the outcome events (callback, cause) and how often the pass had to raise
\* each: once per branch of the pass that concluded with it
Outcomes ==
    {<<"TxDone", NoType>>, <<"RxDone", NoType>>, <<"RxError", NoType>>,
     <<"TxTimeout", IRQ_TYPE>>, <<"RxTimeout", IRQ_TYPE>>,
     <<"TxTimeout", TIMER_TYPE>>, <<"RxTimeout", TIMER_TYPE>>}

Raised(o) ==
    LET B(c) == IF c THEN 1 ELSE 0
    IN  CASE o = <<"TxDone", NoType>> -> B(Logged("IRQ_TX_DONE"))
          [] o = <<"RxDone", NoType>> -> B(Logged("IRQ_RX_DONE") /\ ~Logged("IRQ_CRC_ERROR"))
          [] o = <<"RxError", NoType>> -> B(Logged("IRQ_CRC_ERROR")) + B(Logged("IRQ_HEADER_ERROR"))
          [] o = <<"TxTimeout", IRQ_TYPE>> -> B(Logged("IRQ_TX_TIMEOUT"))
          [] o = <<"RxTimeout", IRQ_TYPE>> -> B(Logged("IRQ_RX_TIMEOUT"))
          [] o = <<"TxTimeout", TIMER_TYPE>> -> B(Logged("TimerTxTimeout"))
          [] o = <<"RxTimeout", TIMER_TYPE>> -> B(Logged("TimerRxTimeout"))

\* C8: for the TX/RX outcome events the RadioEvents set is called only when
\* RadioPublicNetwork.Current is true; the _events set is called in every
\* outcome branch whenever it is registered, whatever the network mode, with
\* isPublic equal to RadioPublicNetwork.Current.
C8_GatedAndGenericDispatch ==
    Ran =>
       /\ \A o \in Outcomes :
             /\ Calls("_events", o[1], o[2]) = (IF _events THEN Raised(o) ELSE 0)
             /\ Calls("RadioEvents", o[1], o[2]) =
                   (IF RadioEvents /\ RadioPublicNetwork.Current THEN Raised(o) ELSE 0)
       /\ \A i \in DOMAIN pass.events :
             pass.events[i].set = "_events"
                => pass.events[i].isPublic = RadioPublicNetwork.Current

C8_Witness ==
    /\ Ran
    /\ RadioEvents /\ _events /\ ~RadioPublicNetwork.Current
    /\ IRQ_TX_DONE \in pass.irqRegs
    /\ Calls("_events", "TxDone", NoType) = 1
    /\ Calls("RadioEvents", "TxDone", NoType) = 0
    /\ \E i \in DOMAIN pass.events : pass.events[i].isPublic = FALSE

\* C9: a timer-fired flag set by its timer callback is consumed by the pass that
\* follows: when a pass returns both flags are false, the flag gave at most
\* one timeout event to each listener set, and only the pass run by the
\* callback of that timer raises a timer-sourced timeout.
C9_TimerFlagConsumedOnce ==
    /\ TimerRxTimeout = FALSE
    /\ TimerTxTimeout = FALSE
    /\ Ran => \A set \in Sets :
          /\ Calls(set, "RxTimeout", TIMER_TYPE) <= 1
          /\ Calls(set, "TxTimeout", TIMER_TYPE) <= 1
          /\ Calls(set, "RxTimeout", TIMER_TYPE) > 0 => pass.src = "RadioOnRxTimeoutIrq"
          /\ Calls(set, "TxTimeout", TIMER_TYPE) > 0 => pass.src = "RadioOnTxTimeoutIrq"

C9_Witness ==
    /\ Ran
    /\ pass.src = "RadioOnRxTimeoutIrq"
    /\ pass.TimerRxIn
    /\ Calls("_events", "RxTimeout", TIMER_TYPE) = 1
    /\ TimerRxTimeout = FALSE

\* C10: every read and every write of IrqFired, TimerRxTimeout and
\* TimerTxTimeout is made between BoardDisableIrq and BoardEnableIrq, so no
\* context is ever between the test of a flag and its clearing with the
\* interrupts enabled.
C10_FlagAccessesBracketed ==
    /\ access.masked
    /\ \A p \in Procs : pc[p] \in {"L1366", "L1561", "L1581"} => irqDisabled

-----------------------------------------------------------------------------
(* Properties of the modem and sync word calls (SpecSync) *)

\* the last two calls were RadioSetModem(MODEM_FSK); RadioSetModem(MODEM_LORA),
\* made from LoRa with no custom sync word
ModemRoundTrip ==
    /\ Len(calls) >= 2
    /\ calls[2].op = "RadioSetModem" /\ calls[2].arg = MODEM_FSK
    /\ calls[1].op = "RadioSetModem" /\ calls[1].arg = MODEM_LORA
    /\ calls[2].before._modem = MODEM_LORA
    /\ ~calls[2].before.hasCustomSyncWord

\* C11: from LoRa with no custom sync word, RadioSetModem(FSK) followed by
\* RadioSetModem(LORA) ends with RadioPublicNetwork as it was before the FSK
\* switch, for public and for private; for public the public sync word has
\* been written again, for private the register does not hold the public one.
C11_ModemRoundTripRestores ==
    ModemRoundTrip =>
        LET b == calls[2].before
        IN  /\ RadioPublicNetwork.Current = b.Current
            /\ RadioPublicNetwork.Previous = b.Previous
            /\ _modem = MODEM_LORA
            /\ ~hasCustomSyncWord
            /\ calls[1].before.REG_LR_SYNCWORD = SYNCWORD_RESET
            /\ IF b.Current THEN REG_LR_SYNCWORD = LORA_MAC_PUBLIC_SYNCWORD
               ELSE REG_LR_SYNCWORD # LORA_MAC_PUBLIC_SYNCWORD

C11_Witness ==
    /\ ModemRoundTrip
    /\ calls[2].before.Current
    /\ ~calls[1].before.Current
    /\ RadioPublicNetwork.Current
    /\ REG_LR_SYNCWORD = LORA_MAC_PUBLIC_SYNCWORD

\* C12: while a custom sync word is set, no call but RadioSetPublicNetwork
\* clears the flag, sets RadioPublicNetwork.Current back to Previous or writes
\* the public or the private sync word into the register; RadioSetPublicNetwork
\* clears the flag.
C12_CustomSyncWordSuppressesRestore ==
    [][/\ (hasCustomSyncWord /\ calls' # <<>> /\ calls'[1].op # "RadioSetPublicNetwork")
            => /\ hasCustomSyncWord'
               /\ RadioPublicNetwork'.Previous = RadioPublicNetwork.Previous
               /\ RadioPublicNetwork'.Current \in {RadioPublicNetwork.Current, FALSE}
               /\ REG_LR_SYNCWORD' \in {SYNCWORD_CUSTOM, SYNCWORD_RESET}
       /\ (calls' # <<>> /\ calls' # calls /\ calls'[1].op = "RadioSetPublicNetwork")
            => ~hasCustomSyncWord']_vars

C12_Witness ==
    /\ hasCustomSyncWord
    /\ Len(calls) >= 2
    /\ calls[2].op = "RadioSetModem" /\ calls[2].arg = MODEM_FSK
    /\ calls[1].op \in {"RadioSetModem", "RadioSetRxConfig", "RadioGetSyncWord"}
    /\ calls[2].before.hasCustomSyncWord
    /\ _modem = MODEM_LORA
    /\ RadioPublicNetwork.Previous /\ ~RadioPublicNetwork.Current
    /\ REG_LR_SYNCWORD = SYNCWORD_RESET

-----------------------------------------------------------------------------
(* Properties of the calls that start a reception or a transmission          *)
(* (SpecRxTx)                                                                *)

\* the step is the call op
Step(op) == calls' # <<>> /\ calls'[1].op = op

\* the timeout the chip is started with by RadioRx and RadioRxBoosted
RxStartTimeout == IF RxContinuous = TRUE THEN RX_CONTINUOUS ELSE Shl6(RxTimeout)

\* C13 as stated: RadioRx(timeout) arms the RX timer unless timeout is 0 and
\* continuous reception is configured, so RadioRx(0) in single mode leaves the
\* timer armed; the chip is started with 0xFFFFFF when RxContinuous and with
\* RxTimeout << 6 otherwise.
C13_RxArmsUnlessZeroAndContinuous ==
    [][Step("RadioRx") =>
          /\ ~(calls'[1].args.timeout = 0 /\ RxContinuous = TRUE) => RxTimeoutTimer'
          /\ calls'[1].cmds = << [cmd |-> "SX126xSetRx", arg |-> RxStartTimeout] >>]_vars

\* C13 amended: RadioRx(timeout) starts the RX timer, with the value timeout,
\* exactly when timeout is not 0, whatever RxContinuous; RadioRx(0) leaves the
\* timer and its value as they were; the chip is started with 0xFFFFFF when
\* RxContinuous and with RxTimeout << 6 otherwise.
C13_RxArmsIffTimeoutNonZero ==
    [][Step("RadioRx") =>
          /\ IF calls'[1].args.timeout # 0
             THEN RxTimeoutTimer' /\ TimerValue'.Rx = calls'[1].args.timeout
             ELSE RxTimeoutTimer' = RxTimeoutTimer /\ TimerValue' = TimerValue
          /\ calls'[1].cmds = << [cmd |-> "SX126xSetRx", arg |-> RxStartTimeout] >>
          /\ OperatingMode' = MODE_RX]_vars

C13_Witness ==
    /\ calls # <<>>
    /\ calls[1].op = "RadioRx"
    /\ calls[1].args.timeout = 0
    /\ RxContinuous = FALSE
    /\ RxTimeoutTimer = FALSE
    /\ RxTimeout > 0
    /\ calls[1].cmds[1].arg = RxTimeout * 64
    /\ OperatingMode = MODE_RX

\* C14: after RadioRxBoosted(timeout) with a timeout that is not 0 the RX timer
\* is armed with that value, when RxContinuous is true and when it is false.
C14_RxBoostedArmsForNonZero ==
    [][(Step("RadioRxBoosted") /\ calls'[1].args.timeout # 0)
          => RxTimeoutTimer' /\ TimerValue'.Rx = calls'[1].args.timeout]_vars

\* C15: RadioSend(buffer, size) writes size into the payload length of the
\* packet parameters of the chip's packet type, pushes the packet parameters,
\* sends the payload and leaves the TX timer armed with TxTimeout, which is
\* the timeout of the last RadioSetTxConfig: only RadioSetTxConfig changes it.
C15_SendPushesLengthAndArmsTimer ==
    [][/\ Step("RadioSend") =>
            LET size == calls'[1].args.size
                pkt == SX126x'.PacketParams
            IN  /\ IF SX126xGetPacketType = PACKET_TYPE_LORA
                   THEN /\ pkt.LoRa.PayloadLength = size
                        /\ pkt.Gfsk = SX126x.PacketParams.Gfsk
                   ELSE /\ pkt.Gfsk.PayloadLength = size
                        /\ pkt.LoRa = SX126x.PacketParams.LoRa
                /\ calls'[1].cmds =
                      << [cmd |-> "SX126xSetPacketParams", arg |-> pkt],
                         [cmd |-> "SX126xSendPayload", arg |-> size],
                         [cmd |-> "TimerStart", arg |-> "TxTimeoutTimer"] >>
                /\ TxTimeoutTimer'
                /\ TimerValue'.Tx = TxTimeout
                /\ OperatingMode' = MODE_TX
       /\ Step("RadioSetTxConfig") => TxTimeout' = calls'[1].args.timeout
       /\ ~Step("RadioSetTxConfig") => TxTimeout' = TxTimeout]_vars

C15_Witness ==
    /\ calls # <<>>
    /\ calls[1].op = "RadioSend"
    /\ calls[1].args.size = 255
    /\ SX126xGetPacketType = PACKET_TYPE_GFSK
    /\ SX126x.PacketParams.PacketType = PACKET_TYPE_LORA
    /\ SX126x.PacketParams.Gfsk.PayloadLength = 255
    /\ SX126x.PacketParams.LoRa.PayloadLength # 255
    /\ TxTimeoutTimer
    /\ TxTimeout = 4000
    /\ TimerValue.Tx = 4000

\* the running states of RadioGetStatus
Running == {RF_TX_RUNNING, RF_RX_RUNNING, RF_CAD}

\* the samples of the window up to the first one above the threshold
SensedFree(call) ==
    \A k \in 1..Len(call.args.samples) :
        ~(call.args.samples[k] > call.args.rssiThresh)

\* the check read the RSSI up to the first sample above the threshold and no
\* further
StoppedAtFirstAbove(call) ==
    LET reads == Cardinality({k \in 1..Len(call.cmds) : call.cmds[k] = "RadioRssi"})
    IN  /\ \A k \in 1..(reads - 1) : ~(call.args.samples[k] > call.args.rssiThresh)
        /\ IF call.ret = FALSE
           THEN reads >= 1 /\ call.args.samples[reads] > call.args.rssiThresh
           ELSE reads = Len(call.args.samples)

\* C16 (as stated): RadioIsChannelFree always puts the radio to sleep before
\* it returns, for every starting radio state (idle, TX running, RX running,
\* CAD) and for every return value; it returns false as soon as one RSSI
\* sample exceeds rssiThresh and true only if no sample of the window
\* exceeded it.
C16_AlwaysSleepsBeforeReturn ==
    [][Step("RadioIsChannelFree") =>
          /\ OperatingMode' = MODE_SLEEP
          /\ calls'[1].cmds # <<>>
          /\ calls'[1].cmds[Len(calls'[1].cmds)] = "RadioSleep"
          /\ StoppedAtFirstAbove(calls'[1])
          /\ (calls'[1].ret = TRUE => SensedFree(calls'[1]))]_vars

\* C16 (amended): started with the radio idle, RadioIsChannelFree puts the
\* radio to sleep before it returns, for every return value, returns false as
\* soon as one RSSI sample exceeds rssiThresh and true only if no sample of
\* the window exceeded it; started while a transmission, a reception or a CAD
\* is running, it returns false at once, reads no sample and leaves the radio
\* state as it was.
C16_SleepsWhenStartedIdle ==
    [][Step("RadioIsChannelFree") =>
          IF RadioGetStatus = RF_IDLE
          THEN /\ OperatingMode' = MODE_SLEEP
               /\ calls'[1].cmds # <<>>
               /\ calls'[1].cmds[Len(calls'[1].cmds)] = "RadioSleep"
               /\ StoppedAtFirstAbove(calls'[1])
               /\ (calls'[1].ret = TRUE <=> SensedFree(calls'[1]))
          ELSE /\ RadioGetStatus \in Running
               /\ calls'[1].ret = FALSE
               /\ calls'[1].cmds = <<>>
               /\ UNCHANGED <<OperatingMode, chipMode, cfgVars, REG_LR_SYNCWORD,
                              timerVars, obsVars>>]_vars

\* a check that found the first sample above the threshold, stopped there
\* with a second sample left in the window, and left the radio asleep
C16_Witness ==
    /\ calls # <<>>
    /\ calls[1].op = "RadioIsChannelFree"
    /\ calls[1].ret = FALSE
    /\ Len(calls[1].args.samples) = 2
    /\ calls[1].cmds = SenseCmds(1)
    /\ OperatingMode = MODE_SLEEP


\* C17: the DIO interrupt handler RadioOnDioIrq only sets IrqFired; it makes
\* no chip transaction (the chip's IRQ status and mode stay as they were) and
\* leaves the operating mode, the timers, the timer-fired flags, the modem
\* and the sync word state unchanged.
C17_DioIrqOnlySetsIrqFired ==
    [][(dio1 /\ ~dio1') =>
          /\ IrqFired' = TRUE
          /\ UNCHANGED <<irqStatus, chipMode, OperatingMode, timerVars,
                         TimerRxTimeout, TimerTxTimeout, cfgVars,
                         REG_LR_SYNCWORD, RxContinuous, lsnVars, obsVars,
                         pktVars>>]_vars

\* the handler has run during a transmission: the flag is set, the chip's
\* status is still latched and the TX timer still runs
C17_Witness ==
    /\ IrqFired /\ ~dio1
    /\ pass = NoPass
    /\ irqStatus = {IRQ_TX_DONE}
    /\ OperatingMode = MODE_TX
    /\ TxTimeoutTimer

\* the last call configured the FSK modem
FskConfigured ==
    /\ calls # <<>>
    /\ calls[1].op \in {"RadioSetRxConfig", "RadioSetTxConfig"}
    /\ calls[1].args.modem = MODEM_FSK

\* the entries of the table whose bandwidth is at least b
AtLeast(b) == {k \in 1..Len(FskBandwidths) : FskBandwidths[k].bandwidth >= b}

\* the register code of the smallest entry of the table whose bandwidth is at
\* least b, and 0x1F when b is 0 or above every entry
SmallestAtLeast(b) ==
    IF b = 0 \/ AtLeast(b) = {}
    THEN 31
    ELSE FskBandwidths[CHOOSE k \in AtLeast(b) :
                          \A j \in AtLeast(b) :
                             FskBandwidths[k].bandwidth <= FskBandwidths[j].bandwidth].RegValue

\* C18: for every FSK bandwidth request b, the register code stored by the
\* lookup is the code of the smallest entry of FskBandwidths whose bandwidth
\* is greater than or equal to b (a request equal to an entry gets that
\* entry's code), and 0x1F when b is 0 or exceeds every entry.
C18_FskCodeOfSmallestAtLeast ==
    FskConfigured =>
        SX126x.ModulationParams.Gfsk.Bandwidth = SmallestAtLeast(calls[1].args.bandwidth)

\* the last call configured the LoRa modem
LoRaConfigured ==
    /\ calls # <<>>
    /\ calls[1].op \in {"RadioSetRxConfig", "RadioSetTxConfig"}
    /\ calls[1].args.modem = MODEM_LORA

\* the (bandwidth index, spreading factor) pairs of the low data rate rule
LowDatarateOptimizePairs == {<<0, 11>>, <<0, 12>>, <<1, 12>>}

\* C19: after RadioSetRxConfig or RadioSetTxConfig with the LoRa modem, the
\* stored LowDatarateOptimize flag is 1 exactly when the bandwidth index is 0
\* and the spreading factor 11 or 12, or the bandwidth index is 1 and the
\* spreading factor 12, or the override of RadioEnforceLowDRopt(true) is
\* active; it is 0 for every other pair, 125k/10 and 250k/11 included.
C19_LowDatarateOptimizeRule ==
    LoRaConfigured =>
        LET ldo == SX126x.ModulationParams.LoRa.LowDatarateOptimize
            pair == <<calls[1].args.bandwidth, calls[1].args.datarate>>
        IN  /\ ldo \in {0, 1}
            /\ ldo = 1 <=> (pair \in LowDatarateOptimizePairs \/ force_low_dr_opt)

\* 250 kHz with spreading factor 11 was configured without the override and
\* the flag is off
C19_Witness ==
    /\ LoRaConfigured
    /\ calls[1].args.bandwidth = 1
    /\ calls[1].args.datarate = 11
    /\ ~force_low_dr_opt
    /\ SX126x.ModulationParams.LoRa.LowDatarateOptimize = 0

\* C20: after RadioSetRxConfig or RadioSetTxConfig with the LoRa modem and
\* spreading factor 5 or 6, the stored preamble length is the larger of the
\* requested length and 12; for every other spreading factor it is the
\* requested length.
C20_PreambleMinimumForSf5Sf6 ==
    LoRaConfigured =>
        LET requested == calls[1].args.preambleLen
            stored == SX126x.PacketParams.LoRa.PreambleLength
        IN  IF calls[1].args.datarate \in {5, 6}
            THEN stored = IF requested >= 12 THEN requested ELSE 12
            ELSE stored = requested

\* spreading factor 6 was configured with a preamble of 8 symbols and 12 are
\* stored
C20_Witness ==
    /\ LoRaConfigured
    /\ calls[1].args.datarate = 6
    /\ calls[1].args.preambleLen = 8
    /\ SX126x.PacketParams.LoRa.PreambleLength = 12

\* bit 2 of 0x0736 is the opposite of the stored IQ-inversion flag
IqPatched ==
    Registers.IqPolaritySetup =
        IF SX126x.PacketParams.LoRa.InvertIQ = TRUE THEN "cleared" ELSE "set"

\* bit 2 of 0x0889 is cleared exactly when the stored LoRa bandwidth is 500 kHz
TxModulationPatched ==
    Registers.TxModulation =
        IF SX126x.ModulationParams.LoRa.Bandwidth = RadioLoRaBandwidths_t.LORA_BW_500
        THEN "cleared" ELSE "set"

\* C21 (as stated): after any sequence of RadioSetRxConfig and
\* RadioSetTxConfig calls ending with a LoRa configuration, bit 2 of 0x0736
\* is the opposite of the stored IQ-inversion flag and bit 2 of 0x0889 is
\* cleared exactly when the stored LoRa bandwidth is 500 kHz.
C21_BothPatchesAfterLoRaConfig ==
    LoRaConfigured => (IqPatched /\ TxModulationPatched)

\* C21 (amended): each patch is applied by one of the two calls. After
\* RadioSetRxConfig with the LoRa modem, bit 2 of 0x0736 is the opposite of
\* the stored IQ-inversion flag; after RadioSetTxConfig with the LoRa modem,
\* bit 2 of 0x0889 is cleared exactly when the stored LoRa bandwidth is
\* 500 kHz, and after RadioSetTxConfig with the FSK modem it is set.
\* RadioSetRxConfig leaves 0x0889 as it was, RadioSetTxConfig leaves 0x0736
\* as it was, and RadioSetRxConfig with the FSK modem leaves both.
C21_EachPatchByItsCall ==
    [][/\ Step("RadioSetRxConfig") =>
             /\ Registers'.TxModulation = Registers.TxModulation
             /\ IF calls'[1].args.modem = MODEM_LORA
                THEN IqPatched'
                ELSE Registers'.IqPolaritySetup = Registers.IqPolaritySetup
       /\ Step("RadioSetTxConfig") =>
             /\ Registers'.IqPolaritySetup = Registers.IqPolaritySetup
             /\ IF calls'[1].args.modem = MODEM_LORA
                THEN TxModulationPatched'
                ELSE Registers'.TxModulation = "set"]_vars

\* RadioSetTxConfig stored an inverted IQ setup and 500 kHz after a
\* RadioSetRxConfig with the normal IQ setup: bit 2 of 0x0889 is cleared and
\* bit 2 of 0x0736 is still set
C21_Witness ==
    /\ LoRaConfigured
    /\ calls[1].op = "RadioSetTxConfig"
    /\ SX126x.PacketParams.LoRa.InvertIQ = TRUE
    /\ Registers = [IqPolaritySetup |-> "set", TxModulation |-> "cleared"]

\* what the read of the symbol time may return with the stored parameters,
\* where it matters
PossibleReads(modem) ==
    IF modem = MODEM_LORA /\ ~InTable(SymbTimeIndex) THEN OutsideSymbTime ELSE {0}

LoRaTimeAsked ==
    /\ calls # <<>>
    /\ calls[1].op = "RadioTimeOnAir"
    /\ calls[1].args.modem = MODEM_LORA

\* the kHz of the bandwidth codes of 125, 250 and 500 kHz
BandwidthKHz(code) ==
    CASE code = RadioLoRaBandwidths_t.LORA_BW_125 -> 125
      [] code = RadioLoRaBandwidths_t.LORA_BW_250 -> 250
      [] code = RadioLoRaBandwidths_t.LORA_BW_500 -> 500

\* the standard LoRa time on air of pktLen bytes with the stored parameters,
\* in whole milliseconds: the symbol time 2^SF / bandwidth in microseconds,
\* the symbols of the preamble and of the payload in quarters of a symbol,
\* and the ceiling of their product
StandardTimeOnAir(pktLen) ==
    LET mod == SX126x.ModulationParams.LoRa
        pkt == SX126x.PacketParams.LoRa
        SF == mod.SpreadingFactor
        symbolTime == ((2 ^ SF) * 1000) \div BandwidthKHz(mod.Bandwidth)
        payload == CeilDiv(8 * pktLen - 4 * SF + 28
                              + 16 * (IF pkt.CrcMode = TRUE THEN 1 ELSE 0)
                              - 20 * (IF pkt.HeaderType = TRUE THEN 1 ELSE 0),
                           4 * (SF - 2 * mod.LowDatarateOptimize))
                   * (mod.CodingRate + 4)
        quarters == 4 * pkt.PreambleLength + 17 + 32
                       + 4 * (IF payload > 0 THEN payload ELSE 0)
    IN  CeilDiv(quarters * symbolTime, 4000)

\* C23: for LoRa with spreading factor 7..12, bandwidth 125/250/500 kHz and
\* coding rate 1..4 (4/5..4/8), RadioTimeOnAir returns the whole-millisecond
\* ceiling of (preamble + 4.25 + 8 + max(0, ceil((8*pktLen - 4*SF + 28 +
\* 16*CRC - 20*implicitHeader) / (4*(SF - 2*lowDatarateOptimize))) *
\* (codingRate + 4))) * symbolTime.
C23_StandardLoRaTimeOnAir ==
    (/\ LoRaTimeAsked
     /\ SX126x.ModulationParams.LoRa.SpreadingFactor \in 7..12
     /\ SX126x.ModulationParams.LoRa.Bandwidth \in
           {RadioLoRaBandwidths_t.LORA_BW_125, RadioLoRaBandwidths_t.LORA_BW_250,
            RadioLoRaBandwidths_t.LORA_BW_500}
     /\ SX126x.ModulationParams.LoRa.CodingRate \in 1..4)
        => calls[1].ret = StandardTimeOnAir(calls[1].args.pktLen)

\* the standard time on air holds for the coding rates 4/5 to 4/7
C23_StandardForCodingRatesBelow48 ==
    (/\ LoRaTimeAsked
     /\ SX126x.ModulationParams.LoRa.SpreadingFactor \in 7..12
     /\ SX126x.ModulationParams.LoRa.Bandwidth \in
           {RadioLoRaBandwidths_t.LORA_BW_125, RadioLoRaBandwidths_t.LORA_BW_250,
            RadioLoRaBandwidths_t.LORA_BW_500}
     /\ SX126x.ModulationParams.LoRa.CodingRate \in 1..3)
        => calls[1].ret = StandardTimeOnAir(calls[1].args.pktLen)

\* C29: for every LoRa configuration that RadioSetRxConfig or
\* RadioSetTxConfig stores, RadioTimeOnAir(LoRa, pktLen) reads the 3x6
\* symbol-time table only at in-range indices, [bandwidth code - 4] in 0..2
\* and [12 - spreading factor] in 0..5.
C29_SymbTimeReadInTable ==
    LoRaTimeAsked => InTable(calls[1].cmds[1])

-----------------------------------------------------------------------------
(* Properties of the order and the causes of the events of a pass *)

\* C24: for each RadioSend the _events set receives at most one of TxDone and
\* TxTimeout before the next RadioSend: after a timer-sourced TxTimeout no
\* later pass delivers a TxDone or an interrupt-sourced TxTimeout for that send.
C24_AtMostOneTxConclusion == txConcl <= 1

\* the events the set received in the last pass, in the order of the calls
Delivered(set) ==
    LET sel == SelectSeq(pass.events, LAMBDA e : e.set = set)
    IN  [i \in 1..Len(sel) |-> <<sel[i].name, sel[i].type>>]

\* the event of a flag when the flag is present and the set is called for it
Opt(present, called, name, type) ==
    IF present /\ called THEN << <<name, type>> >> ELSE <<>>

\* the events of the flags of the last pass in the fixed order, for a set
\* that is called for the outcome events when outcome holds and for CAD-done
\* and preamble-detected when other holds
InOrder(outcome, other) ==
    LET has(flag) == flag \in pass.irqRegs
    IN  Opt(has(IRQ_TX_DONE), outcome, "TxDone", NoType)
        \o Opt(has(IRQ_RX_DONE) /\ has(IRQ_CRC_ERROR), outcome, "RxError", NoType)
        \o Opt(has(IRQ_RX_DONE) /\ ~has(IRQ_CRC_ERROR), outcome, "RxDone", NoType)
        \o Opt(has(IRQ_CAD_DONE), other, "CadDone", NoType)
        \o Opt(Logged("IRQ_TX_TIMEOUT"), outcome, "TxTimeout", IRQ_TYPE)
        \o Opt(Logged("IRQ_RX_TIMEOUT"), outcome, "RxTimeout", IRQ_TYPE)
        \o Opt(has(IRQ_PREAMBLE_DETECTED), other, "PreAmpDetect", NoType)
        \o Opt(has(IRQ_HEADER_ERROR), outcome, "RxError", NoType)
        \o Opt(Logged("TimerRxTimeout"), outcome, "RxTimeout", TIMER_TYPE)
        \o Opt(Logged("TimerTxTimeout"), outcome, "TxTimeout", TIMER_TYPE)

\* C25: the events of one pass are raised in the fixed order TX-done, RX-done
\* (RxError on CRC error, else RxDone), CAD-done, interrupt-sourced RX/TX
\* timeout, preamble-detected, header-error (RxError), timer-sourced RX
\* timeout, timer-sourced TX timeout; the event of a flag is raised whatever
\* other flags the pass finds (the timeouts under the conditions of their
\* branches).
C25_EventsInFixedOrder ==
    Ran =>
       /\ Delivered("_events") = InOrder(_events, FALSE)
       /\ Delivered("RadioEvents") =
             InOrder(RadioEvents /\ RadioPublicNetwork.Current, RadioEvents)

C25_Witness ==
    /\ Ran
    /\ {IRQ_TX_DONE, IRQ_HEADER_ERROR} \subseteq pass.irqRegs
    /\ pass.TimerRxIn
    /\ Delivered("_events") =
          << <<"TxDone", NoType>>, <<"RxError", NoType>>, <<"RxTimeout", TIMER_TYPE>> >>

\* the tracked mode when the last pass reached the RX/TX-timeout branch: the
\* TX-done and the CAD-done branch, and the RX-done branch of a single
\* reception, have put it to standby-RC
ModeAtTimeoutBranch ==
    IF \/ IRQ_TX_DONE \in pass.irqRegs
       \/ IRQ_CAD_DONE \in pass.irqRegs
       \/ (IRQ_RX_DONE \in pass.irqRegs /\ RxContinuous = FALSE)
    THEN MODE_STDBY_RC
    ELSE pass.modeIn

\* C26: an RX/TX-timeout IRQ flag gives one TxTimeout of cause IRQ_TYPE when
\* the tracked mode at the timeout branch is TX, one RxTimeout of cause
\* IRQ_TYPE when it is RX, and no event in any other mode; in the two handled
\* cases the matching timer is stopped and the mode becomes standby-RC.  A
\* timeout event has the cause TIMER_TYPE exactly when the branch of a
\* timer-fired flag raised it.
C26_TimeoutByModeAndCause ==
    Ran =>
       LET irq == IRQ_RX_TX_TIMEOUT \in pass.irqRegs
           B(c) == IF c THEN 1 ELSE 0
       IN  /\ \A set \in Sets :
                /\ Calls(set, "TxTimeout", IRQ_TYPE) =
                      B(irq /\ ModeAtTimeoutBranch = MODE_TX /\ Applicable(set))
                /\ Calls(set, "RxTimeout", IRQ_TYPE) =
                      B(irq /\ ModeAtTimeoutBranch = MODE_RX /\ Applicable(set))
                /\ Calls(set, "TxTimeout", TIMER_TYPE) =
                      B(Logged("TimerTxTimeout") /\ pass.TimerTxIn /\ Applicable(set))
                /\ Calls(set, "RxTimeout", TIMER_TYPE) =
                      B(Logged("TimerRxTimeout") /\ pass.TimerRxIn /\ Applicable(set))
                /\ Calls(set, "TxTimeout", NoType) = 0
                /\ Calls(set, "RxTimeout", NoType) = 0
           /\ (irq /\ ModeAtTimeoutBranch = MODE_TX)
                 => (TxTimeoutTimer = FALSE /\ pass.modeOut = MODE_STDBY_RC)
           /\ (irq /\ ModeAtTimeoutBranch = MODE_RX)
                 => (RxTimeoutTimer = FALSE /\ pass.modeOut = MODE_STDBY_RC)
           /\ Logged("TimerTxTimeout") => pass.TimerTxIn
           /\ Logged("TimerRxTimeout") => pass.TimerRxIn

C26_Witness ==
    /\ Ran
    /\ IRQ_RX_TX_TIMEOUT \in pass.irqRegs
    /\ pass.modeIn = MODE_TX
    /\ ModeAtTimeoutBranch = MODE_TX
    /\ _events
    /\ Calls("_events", "TxTimeout", IRQ_TYPE) = 1
    /\ Calls("_events", "RxTimeout", IRQ_TYPE) = 0
    /\ TxTimeoutTimer = FALSE
    /\ pass.modeOut = MODE_STDBY_RC

\* C27: a pass that finds the header-error flag stops the RX timer, puts the
\* mode to standby-RC when reception is not continuous and leaves it to the
\* other branches when it is, and raises RxError to the gated and the generic
\* set; it does not mark the RX timeout as handled, so a timer-fired RX flag
\* latched in the same pass still raises its RxTimeout.
C27_HeaderErrorBranch ==
    (Ran /\ IRQ_HEADER_ERROR \in pass.irqRegs) =>
       LET B(c) == IF c THEN 1 ELSE 0
           crc == {IRQ_RX_DONE, IRQ_CRC_ERROR} \subseteq pass.irqRegs
       IN  /\ RxTimeoutTimer = FALSE
           /\ RxContinuous = FALSE => pass.modeOut = MODE_STDBY_RC
           /\ (RxContinuous = TRUE
                 /\ pass.irqRegs \cap {IRQ_TX_DONE, IRQ_CAD_DONE, IRQ_RX_TX_TIMEOUT} = {})
                 => pass.modeOut = pass.modeIn
           /\ \A set \in Sets :
                 /\ Calls(set, "RxError", NoType) = B(Applicable(set)) * (1 + B(crc))
                 /\ (pass.TimerRxIn /\ ~RxIrqHandled)
                       => Calls(set, "RxTimeout", TIMER_TYPE) = B(Applicable(set))
                 /\ (~pass.TimerRxIn /\ ~Logged("IRQ_RX_TIMEOUT"))
                       => /\ Calls(set, "RxTimeout", TIMER_TYPE) = 0
                          /\ Calls(set, "RxTimeout", IRQ_TYPE) = 0
           /\ pass.rx_timeout_handled = RxIrqHandled

C27_Witness ==
    /\ Ran
    /\ pass.irqRegs = {IRQ_HEADER_ERROR}
    /\ pass.TimerRxIn
    /\ _events
    /\ pass.rx_timeout_handled = FALSE
    /\ Calls("_events", "RxError", NoType) = 1
    /\ Calls("_events", "RxTimeout", TIMER_TYPE) = 1
    /\ RxTimeoutTimer = FALSE

-----------------------------------------------------------------------------
(* Properties of the status read and clear (SpecIrq) *)

\* context p goes from line a to line b
From(p, a, b) == pc[p] = a /\ pc'[p] = b

\* the tracked mode at the RX/TX-timeout branch of a pass that dispatches regs
ModeAtTimeoutOf(regs) ==
    IF \/ IRQ_TX_DONE \in regs
       \/ IRQ_CAD_DONE \in regs
       \/ (IRQ_RX_DONE \in regs /\ RxContinuous = FALSE)
    THEN MODE_STDBY_RC
    ELSE OperatingMode

\* C28: the pass clears IrqFired, then reads the chip's IRQ status, then
\* clears every chip flag.  The read takes all the flags latched so far, those
\* of an interrupt taken after IrqFired was cleared included, and leaves
\* IrqFired as it is, so the next pass runs too; a pass that read an empty
\* status runs no branch.  The clear leaves the status empty, so a flag
\* latched after the read is erased, and only the flags that were read are
\* dispatched.
C28_ClearReadEraseAll ==
    [][\A p \in Procs :
          /\ From(p, "L1367", "L1368") => (IrqFired' = FALSE /\ irqStatus' = irqStatus)
          /\ From(p, "L1370", "L1371") =>
                /\ frame'[p].irqRegs = irqStatus
                /\ irqStatus' = irqStatus
                /\ IrqFired' = IrqFired
          /\ From(p, "L1371", "L1559") =>
                LET regs == frame[p].irqRegs
                    timeout(mode) ==
                        IRQ_RX_TX_TIMEOUT \in regs /\ ModeAtTimeoutOf(regs) = mode
                IN  /\ irqStatus' = {}
                    /\ frame'[p].tx_timeout_handled =
                          (IRQ_TX_DONE \in regs \/ timeout(MODE_TX))
                    /\ frame'[p].rx_timeout_handled =
                          (IRQ_RX_DONE \in regs \/ timeout(MODE_RX))
                    /\ ~frame'[p].tx_timeout_handled => TxTimeoutTimer' = TxTimeoutTimer
                    /\ (~frame'[p].rx_timeout_handled /\ IRQ_HEADER_ERROR \notin regs)
                          => RxTimeoutTimer' = RxTimeoutTimer
                    /\ regs = {} => /\ OperatingMode' = OperatingMode
                                    /\ Branches([Entry EXCEPT !.irqRegs = regs]).events = <<>>
      ]_vars

C28_Witness ==
    /\ pc["task"] = "L1559"
    /\ frame["task"].firedAtRead
    /\ IRQ_RX_DONE \in frame["task"].lost
    /\ frame["task"].rx_timeout_handled = FALSE
    /\ irqStatus = {}
    /\ IrqFired = TRUE

-----------------------------------------------------------------------------
(* The network mode of the FSK modem *)

\* C30: whenever the modem is FSK, RadioPublicNetwork.Current is false; so a
\* pass run while the modem is FSK calls no TxDone, TxTimeout, RxDone,
\* RxTimeout or RxError of the RadioEvents set, and every call of the _events
\* set has isPublic false.
C30_FskIsNeverPublic ==
    _modem = MODEM_FSK =>
       /\ RadioPublicNetwork.Current = FALSE
       /\ Ran => \A i \in DOMAIN pass.events :
                    /\ (pass.events[i].set = "RadioEvents")
                          => pass.events[i].name \notin (TxConcluding \cup RxConcluding)
                    /\ (pass.events[i].set = "_events")
                          => pass.events[i].isPublic = FALSE

C30_Witness ==
    /\ _modem = MODEM_FSK
    /\ RadioPublicNetwork.Previous = TRUE
    /\ RadioPublicNetwork.Current = FALSE
    /\ RadioEvents /\ _events
    /\ Ran
    /\ IRQ_TX_DONE \in pass.irqRegs
    /\ Calls("_events", "TxDone", NoType) = 1
    /\ Calls("RadioEvents", "TxDone", NoType) = 0

-----------------------------------------------------------------------------
(* The nested calls of RadioSetModem and RadioSetPublicNetwork *)

\* a run of nested calls is followed through at most this many calls
MaxDepth == 4

RECURSIVE SetModemRun(_, _, _)
RECURSIVE SetPublicNetworkRun(_, _, _)

\* RadioSetPublicNetwork with Previous left as it was
SetPublicNetworkRun_KeepsPrevious(c, enable, depth) ==
    IF depth = 0 THEN [cfg |-> c, run |-> <<"cut">>]
    ELSE LET r == SetModemRun([c EXCEPT !.hasCustomSyncWord = FALSE,
                                        !.Current = enable], MODEM_LORA, depth - 1)
         IN  [cfg |-> [r.cfg EXCEPT !.REG_LR_SYNCWORD =
                          IF enable = TRUE THEN LORA_MAC_PUBLIC_SYNCWORD
                          ELSE LORA_MAC_PRIVATE_SYNCWORD],
              run |-> <<"RadioSetPublicNetwork">> \o r.run]

\* RadioSetModem(modem) run from the configuration c: the configuration it
\* leaves and the calls made, itself first; a run that needs more than depth
\* calls is cut
SetModemRun(c, modem, depth) ==
    IF depth = 0 THEN [cfg |-> c, run |-> <<"cut">>]
    ELSE IF modem = MODEM_LORA
    THEN IF ~c.hasCustomSyncWord /\ c.Current # c.Previous
         THEN LET r == SetPublicNetworkRun([c EXCEPT !.Current = c.Previous],
                                           c.Previous, depth - 1)
              IN  [cfg |-> [r.cfg EXCEPT !._modem = modem],
                   run |-> <<"RadioSetModem">> \o r.run]
         ELSE [cfg |-> [c EXCEPT !._modem = modem], run |-> <<"RadioSetModem">>]
    ELSE [cfg |-> [c EXCEPT !.Current = FALSE, !._modem = modem,
                            !.REG_LR_SYNCWORD = SYNCWORD_RESET],
          run |-> <<"RadioSetModem">>]

\* RadioSetPublicNetwork(enable) run from the configuration c
SetPublicNetworkRun(c, enable, depth) ==
    IF depth = 0 THEN [cfg |-> c, run |-> <<"cut">>]
    ELSE LET r == SetModemRun([c EXCEPT !.hasCustomSyncWord = FALSE,
                                        !.Current = enable, !.Previous = enable],
                              MODEM_LORA, depth - 1)
         IN  [cfg |-> [r.cfg EXCEPT !.REG_LR_SYNCWORD =
                          IF enable = TRUE THEN LORA_MAC_PUBLIC_SYNCWORD
                          ELSE LORA_MAC_PRIVATE_SYNCWORD],
              run |-> <<"RadioSetPublicNetwork">> \o r.run]

\* every value of the statics the two functions read and write
AnyCfg ==
    [Previous : BOOLEAN, Current : BOOLEAN, hasCustomSyncWord : BOOLEAN,
     _modem : Modems,
     REG_LR_SYNCWORD : {SYNCWORD_RESET, SYNCWORD_CUSTOM, LORA_MAC_PUBLIC_SYNCWORD,
                        LORA_MAC_PRIVATE_SYNCWORD}]

RunOf(op, c, arg) ==
    IF op = "RadioSetModem" THEN SetModemRun(c, arg, MaxDepth)
    ELSE SetPublicNetworkRun(c, arg, MaxDepth)

\* the nested calls of name in a run
Nested(run, name) == Cardinality({i \in 2..Len(run) : run[i] = name})

\* the run of op(arg) from c ends, with at most one nested call of each of
\* the two functions, and a run with a nested call ends with Current equal
\* to Previous
RunEnds(op, c, arg) ==
    LET r == RunOf(op, c, arg)
    IN  /\ \A i \in DOMAIN r.run : r.run[i] # "cut"
        /\ Nested(r.run, "RadioSetModem") <= 1
        /\ Nested(r.run, "RadioSetPublicNetwork") <= 1
        /\ Len(r.run) > 1 => r.cfg.Current = r.cfg.Previous
        /\ r.cfg = IF op = "RadioSetModem" THEN SetModem(c, arg)
                   ELSE SetPublicNetwork(c, arg)

-----------------------------------------------------------------------------
(* SpecCb: the timer callbacks with listeners that start a transmission or a *)
(* reception from inside the pass; calls holds what the last callback's      *)
(* listeners were set to do and what they started                            *)

\* an action that is not a timer callback
NoCallback == calls' = <<>> /\ UNCHANGED <<REG_LR_SYNCWORD, pktVars, txConcl>>

\* the callback op has returned from a pass left in s with listeners reacting
\* as react
CallbackReturned(op, react, s) ==
    /\ calls' = << [op |-> op, react |-> react, started |-> s.started] >>
    /\ UNCHANGED <<REG_LR_SYNCWORD, pktVars, txConcl>>

\* RadioOnTxTimeoutIrq with listeners that react as react
OnTxTimeoutIrq(react) ==
    /\ TxTimeoutTimer
    /\ \E s0 \in {[Entry EXCEPT !.TimerTxTimeout = TRUE, !.TxTimeoutTimer = FALSE,
                                   !.react = react]} :
       \E s \in {BgIrqProcess(s0)} :
           /\ Commit("RadioOnTxTimeoutIrq", s0, s)
           /\ OperatingMode' = MODE_SLEEP
           /\ chipMode' = "STDBY"
           /\ CallbackReturned("RadioOnTxTimeoutIrq", react, s)

\* RadioOnRxTimeoutIrq with listeners that react as react
OnRxTimeoutIrq(react) ==
    /\ RxTimeoutTimer
    /\ \E s0 \in {[Entry EXCEPT !.TimerRxTimeout = TRUE, !.RxTimeoutTimer = FALSE,
                                   !.react = react]} :
       \E s \in {BgIrqProcess(s0)} :
           /\ Commit("RadioOnRxTimeoutIrq", s0, s)
           /\ OperatingMode' = MODE_SLEEP
           /\ chipMode' = "STDBY"
           /\ CallbackReturned("RadioOnRxTimeoutIrq", react, s)

NextCb ==
    \/ \E e \in BOOLEAN : RadioInit(e) /\ NoCallback
    \/ \E e \in BOOLEAN : setLoRaEvents(e) /\ NoCallback
    \/ \E b \in BOOLEAN : RadioSetPublicNetwork(b) /\ NoCallback
    \/ \E c \in BOOLEAN : RadioSetRxConfig(MODEM_LORA, c) /\ NoCallback
    \/ RadioSend /\ NoCallback
    \/ \E timeout \in {0, 1} : RadioRx(timeout) /\ NoCallback
    \/ ChipTxDone /\ NoCallback
    \/ \E c \in BOOLEAN : ChipRxDone(c) /\ NoCallback
    \/ ChipTimeout /\ NoCallback
    \/ ChipHeaderError /\ NoCallback
    \/ RadioOnDioIrq /\ NoCallback
    \/ RadioBgIrqProcess /\ NoCallback
    \/ \E react \in Reactions : OnTxTimeoutIrq(react)
    \/ \E react \in Reactions : OnRxTimeoutIrq(react)

SpecCb == Init /\ [][NextCb]_vars

(* Properties of the return of the timer callbacks (SpecCb) *)

\* C32: when RadioOnTxTimeoutIrq or RadioOnRxTimeoutIrq has returned, its
\* timer is stopped, its timer-fired flag is false and the operating mode is
\* sleep, whatever the pass did and whatever the listeners started in it.
C32_CallbackLeavesTimerStoppedAndSleep ==
    /\ pass.src = "RadioOnTxTimeoutIrq"
          => ~TxTimeoutTimer /\ ~TimerTxTimeout /\ OperatingMode = MODE_SLEEP
    /\ pass.src = "RadioOnRxTimeoutIrq"
          => ~RxTimeoutTimer /\ ~TimerRxTimeout /\ OperatingMode = MODE_SLEEP

-----------------------------------------------------------------------------
(* SpecLive: one RadioSend after which the application makes no call, with   *)
(* the TX timer that expires, the interrupt handler that runs after DIO1 and *)
(* the task that runs a pass after it was woken up; calls holds the send     *)

\* the application has not called RadioSend yet
BeforeSend == calls = <<>>

\* RadioSend, once
SendOnce ==
    /\ BeforeSend
    /\ RadioSend
    /\ calls' = << [op |-> "RadioSend"] >>
    /\ txConcl' = 0
    /\ UNCHANGED <<REG_LR_SYNCWORD, pktVars>>

NextLive ==
    \/ \E e \in BOOLEAN : BeforeSend /\ setLoRaEvents(e) /\ TxConcluded
    \/ \E b \in BOOLEAN : BeforeSend /\ RadioSetPublicNetwork(b) /\ TxConcluded
    \/ \E timeout \in {0, 1} : BeforeSend /\ RadioRx(timeout) /\ TxConcluded
    \/ SendOnce
    \/ ChipTxDone /\ TxConcluded
    \/ \E c \in BOOLEAN : ChipRxDone(c) /\ TxConcluded
    \/ ChipTimeout /\ TxConcluded
    \/ RadioOnDioIrq /\ TxConcluded
    \/ RadioBgIrqProcess /\ TxConcluded
    \/ RadioOnTxTimeoutIrq /\ TxConcluded
    \/ RadioOnRxTimeoutIrq /\ TxConcluded

\* the armed TX timer expires, the interrupt handler runs when DIO1 is
\* raised, and the task it wakes up runs a pass
Fairness ==
    /\ WF_vars(RadioOnTxTimeoutIrq /\ TxConcluded)
    /\ WF_vars(RadioOnDioIrq /\ TxConcluded)
    /\ WF_vars(IrqFired /\ RadioBgIrqProcess /\ TxConcluded)

SpecLive == Init /\ [][NextLive]_vars /\ Fairness

(* Properties of the conclusion of a transmission (SpecLive) *)

\* C33: after RadioSend with the _events set registered and no further call
\* of the application, a TxDone or a TxTimeout is eventually delivered to the
\* _events set, when the armed TX timer eventually expires and the chip's
\* interrupts are eventually followed by a pass; every step that stops the
\* TX timer delivers one of the two events.
C33_SendIsEventuallyConcluded ==
    /\ (~BeforeSend /\ _events) ~> (txConcl > 0)
    /\ [][(_events /\ TxTimeoutTimer /\ ~TxTimeoutTimer')
            => CountCalls(pass'.events, "_events", TxConcluding) >= 1]_vars

C33_Witness ==
    /\ ~BeforeSend
    /\ _events
    /\ txConcl = 1
    /\ pass.src = "RadioOnTxTimeoutIrq"
    /\ pass.irqRegs = {}
    /\ Calls("_events", "TxTimeout", TIMER_TYPE) = 1
    /\ ~TxTimeoutTimer

=============================================================================
